---- MODULE Spec2Model ----
(***************************************************************************)
(* bulk-github-repo-sync-action: the per-repository mirror workflow        *)
(* (mirrorRepository), the reconcile helpers it calls and the run loop     *)
(* (main) of index.js, as a state machine.  One action per awaited remote  *)
(* call or external command; text is a sequence of one-character strings.  *)
(***************************************************************************)
EXTENDS Integers, Sequences, FiniteSets, TLC

\* ---------------------------------------------------------------- bounds
MaxRepos == 2

\* ------------------------------------------------------- text and redaction
\* "x-access-token:"
CREDENTIAL_PREFIX ==
  <<"x","-","a","c","c","e","s","s","-","t","o","k","e","n",":">>

\* the quantifier bound of CREDENTIAL_REGEX  /x-access-token:[^@]{1,200}@/g
CREDENTIAL_MAX_RUN == 200

\* "x-access-token:***@"
CREDENTIAL_REPLACEMENT ==
  <<"x","-","a","c","c","e","s","s","-","t","o","k","e","n",":","*","*","*","@">>

\* the text made of n copies of the character c
Rep(c, n) == [i \in 1..n |-> c]

Min(S) == CHOOSE x \in S : \A y \in S : x <= y

\* text[i..] starts with pat
StartsWithAt(text, i, pat) ==
  /\ i + Len(pat) - 1 <= Len(text)
  /\ \A k \in 1..Len(pat) : text[i + k - 1] = pat[k]

\* tok occurs in text as a contiguous substring (String.prototype.includes)
Contains(text, tok) ==
  \E i \in 1..(Len(text) - Len(tok) + 1) : StartsWithAt(text, i, tok)

\* number of consecutive non-'@' characters of text from position j on,
\* counted up to cap
RunLen(text, j, cap) ==
  Min({k \in 0..cap : k = cap \/ j + k > Len(text) \/ text[j + k] = "@"})

\* a match whose run of token characters has no upper bound
MatchLenUncapped(text, i) ==
  IF ~StartsWithAt(text, i, CREDENTIAL_PREFIX) THEN 0
  ELSE LET j == i + Len(CREDENTIAL_PREFIX)
           n == RunLen(text, j, Len(text))
       IN IF n >= 1 /\ j + n <= Len(text) /\ text[j + n] = "@"
          THEN Len(CREDENTIAL_PREFIX) + n + 1 ELSE 0

\* length of the match of CREDENTIAL_REGEX anchored at position i, 0 if none:
\* the prefix, then 1..200 characters other than '@', then '@'.  The run is
\* greedy; a shorter run can never be followed by '@', so backtracking finds
\* no other match.
MatchLen(text, i) ==
  IF ~StartsWithAt(text, i, CREDENTIAL_PREFIX) THEN 0
  ELSE LET j == i + Len(CREDENTIAL_PREFIX)
           n == RunLen(text, j, CREDENTIAL_MAX_RUN)
       IN IF n >= 1 /\ j + n <= Len(text) /\ text[j + n] = "@"
          THEN Len(CREDENTIAL_PREFIX) + n + 1 ELSE 0

\* String.prototype.replace with a /g regex: from position i find the
\* leftmost match, copy the text before it, put the replacement and resume
\* after the match; without a match copy the rest
RECURSIVE ReplaceFrom(_, _)
ReplaceFrom(text, i) ==
  LET starts == {j \in i..Len(text) : MatchLen(text, j) > 0}
  IN IF starts = {} THEN SubSeq(text, i, Len(text))
     ELSE LET j == Min(starts)
          IN SubSeq(text, i, j - 1) \o CREDENTIAL_REPLACEMENT
             \o ReplaceFrom(text, j + MatchLen(text, j))

\* a sanitizeError that returns the message as it is
SanitizeNothing(message) == message

\* sanitizeError(error): error.message.replace(CREDENTIAL_REGEX, ...)
sanitizeError(message) == ReplaceFrom(message, 1)


\* String.prototype.replace(pattern, replacement) with a string pattern:
\* only the first occurrence is replaced (the replacements used here hold no
\* '$' pattern)
ReplaceFirst(text, pat, rep) ==
  LET starts == {j \in 1..Len(text) : StartsWithAt(text, j, pat)}
  IN IF starts = {} THEN text
     ELSE LET j == Min(starts)
          IN SubSeq(text, 1, j - 1) \o rep \o SubSeq(text, j + Len(pat), Len(text))

\* ------------------------------------------------------------ configuration
\* "https://github.com": deriveInstanceUrl of the default API URL
SOURCE_GITHUB_URL ==
  <<"h","t","t","p","s",":","/","/","g","i","t","h","u","b",".","c","o","m">>
TARGET_GITHUB_URL == SOURCE_GITHUB_URL

\* "/o/r.git": `/${source}.git`, `/${target}.git` (one fixed owner/name)
RepoPath == <<"/","o","/","r",".","g","i","t">>

cloneUrl == SOURCE_GITHUB_URL \o RepoPath
pushUrl == TARGET_GITHUB_URL \o RepoPath

\* url.replace('://', `://x-access-token:${token}@`)
Authenticated(url, token) ==
  ReplaceFirst(url, <<":","/","/">>,
               <<":","/","/">> \o CREDENTIAL_PREFIX \o token \o <<"@">>)

\* message of the error execSync throws: "Command failed: " and the command
CommandFailed(command) ==
  <<"C","o","m","m","a","n","d"," ","f","a","i","l","e","d",":"," ">> \o command

\* `git clone --mirror "${authenticatedCloneUrl}" "${repoDir}"`
CloneCommand(token) ==
  <<"g","i","t"," ","c","l","o","n","e"," ","-","-","m","i","r","r","o","r"," ","\"">>
  \o Authenticated(cloneUrl, token)
  \o <<"\""," ","\"","/","t","m","p","/","r","e","p","o","-","s","y","n","c","-","X","/","r",".","g","i","t","\"">>

\* `git push${forceFlag} "${authenticatedPushUrl}" '<refspec>'`
PushCommand(token, force, refspec) ==
  <<"g","i","t"," ","p","u","s","h">>
  \o (IF force THEN <<" ","-","-","f","o","r","c","e">> ELSE << >>)
  \o <<" ","\"">> \o Authenticated(pushUrl, token) \o <<"\""," ","'">>
  \o refspec \o <<"'">>

HeadsRefspec ==
  <<"r","e","f","s","/","h","e","a","d","s","/","*",":","r","e","f","s","/","h","e","a","d","s","/","*">>
TagsRefspec ==
  <<"r","e","f","s","/","t","a","g","s","/","*",":","r","e","f","s","/","t","a","g","s","/","*">>

FailedToPushBranches ==
  <<"F","a","i","l","e","d"," ","t","o"," ","p","u","s","h"," ","b","r","a","n","c","h","e","s",":"," ">>
FailedToPushTags ==
  <<"F","a","i","l","e","d"," ","t","o"," ","p","u","s","h"," ","t","a","g","s",":"," ">>
FailedToQuery ==
  <<"F","a","i","l","e","d"," ","t","o"," ","q","u","e","r","y"," ","r","e","p","o","s","i","t","o","r","y"," ","o","/","r",":"," ">>
FailedToCreate ==
  <<"F","a","i","l","e","d"," ","t","o"," ","c","r","e","a","t","e"," ","r","e","p","o","s","i","t","o","r","y"," ","o","/","r",":"," ">>
\* message of a failed REST call (carries no credential)
ApiErrorMessage == <<"S","e","r","v","e","r"," ","E","r","r","o","r">>

\* execCommand(command) failing without ignoreErrors: the message the rethrown
\* error carries (error.message = sanitizeError(error); throw error)
ExecCommandError(command) == sanitizeError(CommandFailed(command))

\* -------------------------------------------------------------------- values
Visibilities == {"private", "public", "internal"}
Null == "<null>"
Absent == "<absent>"
\* a description taken as it is, null not mapped to ""
OrEmptyKeepNull(d) == d

\* a description is a string or null; "||" maps null and "" to ""
OrEmpty(d) == IF d = Null THEN "" ELSE d

RepoConfigs ==
  [visibility : Visibilities, disableActions : BOOLEAN, archiveAfterSync : BOOLEAN]
\* the configurations the run-level specification draws its list from: an
\* entry with every key at its default, and one with both switches flipped
RunConfigs ==
  {[visibility |-> "private", disableActions |-> TRUE, archiveAfterSync |-> FALSE],
   [visibility |-> "private", disableActions |-> FALSE, archiveAfterSync |-> TRUE]}

NoTarget ==
  [exists |-> FALSE, visibility |-> "private", description |-> Null,
   archived |-> FALSE, actionsEnabled |-> TRUE]
ExistingTargets(vis, descs) ==
  [exists : {TRUE}, visibility : vis, description : descs,
   archived : BOOLEAN, actionsEnabled : {TRUE}]

AllDescriptions == {Null, "", "Old", "old"}
AllTargetStates == {NoTarget} \cup ExistingTargets(Visibilities, AllDescriptions)
AnyWorld ==
  [targetStates |-> AllTargetStates, sourceDescs |-> AllDescriptions,
   rmOk |-> BOOLEAN]
\* the world of the run-level specification: a target is absent, present or
\* present and archived; `rm -rf` works
RunWorld ==
  [targetStates |-> {NoTarget} \cup ExistingTargets({"private"}, {"Old"}),
   sourceDescs |-> {"Old"}, rmOk |-> {TRUE}]
\* the same with a failing `rm -rf`
CredWorld == [RunWorld EXCEPT !.rmOk = BOOLEAN]

\* "ghp_S", "ghp_T"
TokenS == <<"g","h","p","_","S">>
TokenT == <<"g","h","p","_","T">>
\* token values the credential specification draws from: ordinary ones, one
\* that starts with '@', one with an inner '@', and runs of 200 and 201
TokenValues ==
  {TokenS, TokenT, <<"@","t","k">>, <<"a","@","b">>,
   Rep("k", CREDENTIAL_MAX_RUN), Rep("k", CREDENTIAL_MAX_RUN + 1)}

RECURSIVE SeqsUpTo(_, _)
SeqsUpTo(S, n) ==
  IF n = 0 THEN {<< >>}
  ELSE LET shorter == SeqsUpTo(S, n - 1)
       IN shorter \cup {Append(s, x) : s \in {t \in shorter : Len(t) = n - 1}, x \in S}

\* --------------------------------------------------- configuration resolution
\* a source that holds no value: core.getInput gives '', the others undefined
Unset == << >>

\* a || b on strings
Or(a, b) == IF a # Unset THEN a ELSE b

\* "https://api.github.com"
DefaultApiUrl ==
  <<"h","t","t","p","s",":","/","/","a","p","i",".","g","i","t","h","u","b",".","c","o","m">>

\* the sources of one tunable: the Actions input (core.getInput), the
\* INPUT_* variable spelled with underscores, the command-line flag and the
\* plain environment variable
UnsetTunable == [input |-> Unset, inputEnv |-> Unset, flag |-> Unset, env |-> Unset]
NoSettings ==
  [sourceToken |-> UnsetTunable, targetToken |-> UnsetTunable,
   sourceApiUrl |-> UnsetTunable, targetApiUrl |-> UnsetTunable]

\* argv[name] as yargs gives it: the flag, else the default of the option
Argv(flag, default) == Or(flag, default)

\* SOURCE_GITHUB_API_URL, TARGET_GITHUB_API_URL: the option is declared with
\* default 'https://api.github.com'
ResolveApiUrl(tunable, fallback) ==
  Or(tunable.input, Or(tunable.inputEnv, Or(Argv(tunable.flag, DefaultApiUrl),
     Or(tunable.env, fallback))))

\* SOURCE_GITHUB_TOKEN, TARGET_GITHUB_TOKEN: the option has no default
ResolveToken(tunable) ==
  Or(tunable.input, Or(tunable.inputEnv, Or(Argv(tunable.flag, Unset),
     tunable.env)))

\* ------------------------------------------------------------------- state
VARIABLES
  SOURCE_GITHUB_TOKEN, TARGET_GITHUB_TOKEN, OVERWRITE_VISIBILITY, FORCE_PUSH,
  repos,            \* config.repos
  world,            \* what the run may meet: the states a target may be in
                    \* when its sync starts, the descriptions a source may
                    \* have, the results `rm -rf` may have
  pc,               \* position of the run
  idx,              \* position of the for-of loop of main (1-based)
  target,           \* the remote target repository of repos[idx]
  target0,          \* the state that target was in when the sync started
  description,      \* mirrorRepository: let description
  repoStatus,       \* mirrorRepository: const repoStatus (ensureRepository's status)
  updates,          \* ensureRepository: const updates
  tempDirs,         \* scratch directories that exist on disk, by repository
  cwd,              \* process.cwd(): "original" or "repoDir"
  originalCwd,      \* mirrorRepository: const originalCwd
  result,           \* what mirrorRepository handed to main: a value or a throw
  calls,            \* remote calls and commands issued for repos[idx], in order
  successful, failed, created, updated, visibilityUpdated, descriptionUpdated,
  archived,         \* the counters of main
  failedRepos,      \* main: const failedRepos
  processed,        \* which branch of main's loop body handled each repository
  exitCode,         \* -1 while running, then the process status
  hpc,              \* a direct call of an exported helper: its position
  arg,              \* the argument of that call
  ret,              \* what the helper returned
  ret2,             \* what it returned when called again on ret
  threw,            \* whether the call threw
  warnings,         \* number of core.warning calls the helper made
  settings,         \* what the Actions inputs, the INPUT_* variables, the
                    \* command line and the plain variables hold
  SOURCE_GITHUB_API_URL, TARGET_GITHUB_API_URL

vars ==
  <<SOURCE_GITHUB_TOKEN, TARGET_GITHUB_TOKEN, OVERWRITE_VISIBILITY, FORCE_PUSH,
    repos, world, pc, idx, target, target0, description, repoStatus,
    updates, tempDirs, cwd, originalCwd, result, calls, successful, failed, created, updated,
    visibilityUpdated, descriptionUpdated, archived, failedRepos, processed,
    exitCode, hpc, arg, ret, ret2, threw, warnings, settings,
    SOURCE_GITHUB_API_URL, TARGET_GITHUB_API_URL>>

\* the direct call of an exported helper (deriveInstanceUrl, sanitizeError)
helperCall == <<hpc, arg, ret, ret2, threw, warnings>>

config == <<SOURCE_GITHUB_TOKEN, TARGET_GITHUB_TOKEN, OVERWRITE_VISIBILITY,
            FORCE_PUSH, repos, world, settings, SOURCE_GITHUB_API_URL,
            TARGET_GITHUB_API_URL>>
counters == <<successful, failed, created, updated, visibilityUpdated,
              descriptionUpdated, archived, failedRepos, processed>>

NoStatus == [created |-> FALSE, visibilityUpdated |-> FALSE, descriptionUpdated |-> FALSE]
NoUpdates == [visibility |-> Absent, description |-> Absent]
NoResult ==
  [kind |-> "none", success |-> FALSE, created |-> FALSE,
   visibilityUpdated |-> FALSE, descriptionUpdated |-> FALSE,
   archived |-> FALSE, error |-> << >>]

\* an entry of calls: the operation, how it ended ("ok", "failed", and
\* "notFound" for a get answered with status 404) and the fields it sent
Call(op, outcome) ==
  [op |-> op, outcome |-> outcome, private |-> Absent, visibility |-> Absent,
   description |-> Absent, archived |-> Absent]

\* the state main() starts in, the module-level configuration being given
InitRun ==
  /\ pc = "main" /\ idx = 1 /\ target = NoTarget /\ target0 = NoTarget
  /\ description = "" /\ repoStatus = NoStatus /\ updates = NoUpdates
  /\ tempDirs = {} /\ cwd = "original" /\ originalCwd = "original"
  /\ result = NoResult /\ calls = << >>
  /\ successful = 0 /\ failed = 0 /\ created = 0 /\ updated = 0
  /\ visibilityUpdated = 0 /\ descriptionUpdated = 0 /\ archived = 0
  /\ failedRepos = << >> /\ processed = << >> /\ exitCode = -1
  /\ settings = NoSettings
  /\ SOURCE_GITHUB_API_URL = DefaultApiUrl /\ TARGET_GITHUB_API_URL = DefaultApiUrl

NoText == << >>
\* no helper is called directly
NoHelperCall ==
  /\ hpc = "idle" /\ arg = [kind |-> "none"] /\ ret = NoText /\ ret2 = NoText
  /\ threw = FALSE /\ warnings = 0

\* a run over a list of up to MaxRepos repositories
Init ==
  /\ SOURCE_GITHUB_TOKEN = TokenS /\ TARGET_GITHUB_TOKEN = TokenT
  /\ OVERWRITE_VISIBILITY = FALSE /\ FORCE_PUSH = FALSE
  /\ repos \in SeqsUpTo(RunConfigs, MaxRepos)
  /\ world = RunWorld
  /\ InitRun /\ NoHelperCall


\* ------------------------------------------------------------ mirrorRepository
\* a destructuring that leaves Actions on when the key is absent
DestructureActionsOff(entry) ==
  [visibility |-> IF "visibility" \in DOMAIN entry THEN entry.visibility
                  ELSE "private",
   disableActions |-> IF "disableActions" \in DOMAIN entry
                      THEN entry.disableActions ELSE FALSE,
   archiveAfterSync |-> IF "archiveAfterSync" \in DOMAIN entry
                        THEN entry.archiveAfterSync ELSE FALSE]

\* the destructuring of a list entry with its defaults: visibility 'private',
\* disable-github-actions true, archive-after-sync false; a key of the entry
\* is one of its fields, an absent key is a field the record does not have
Destructure(entry) ==
  [visibility |-> IF "visibility" \in DOMAIN entry THEN entry.visibility
                  ELSE "private",
   disableActions |-> IF "disableActions" \in DOMAIN entry
                      THEN entry.disableActions ELSE TRUE,
   archiveAfterSync |-> IF "archiveAfterSync" \in DOMAIN entry
                        THEN entry.archiveAfterSync ELSE FALSE]

repoConfig == Destructure(repos[idx])

Issue(call) == calls' = Append(calls, call)

\* as AfterEnsure, the archive-after-sync switch not looked at
AfterEnsureNoUnarchive ==
  IF repoConfig.disableActions THEN "disableActions" ELSE "clone"

\* as AfterEnsure, the Actions-disable step taken before the unarchive check
AfterEnsureActionsFirst ==
  IF repoConfig.disableActions THEN "disableActions"
  ELSE IF repoConfig.archiveAfterSync THEN "unarchiveGet" ELSE "clone"

\* where mirrorRepository goes once ensureRepository has returned
AfterEnsure ==
  IF repoConfig.archiveAfterSync THEN "unarchiveGet"
  ELSE IF repoConfig.disableActions THEN "disableActions" ELSE "clone"

\* where mirrorRepository goes once ensureRepositoryUnarchived has returned
AfterUnarchive == IF repoConfig.disableActions THEN "disableActions" ELSE "clone"

Thrown(message) == [NoResult EXCEPT !.kind = "thrown", !.error = message]
FailedOutcome(message) == [NoResult EXCEPT !.kind = "value", !.error = message]
SuccessOutcome(isArchived) ==
  [kind |-> "value", success |-> TRUE, created |-> repoStatus.created,
   visibilityUpdated |-> repoStatus.visibilityUpdated,
   descriptionUpdated |-> repoStatus.descriptionUpdated,
   archived |-> isArchived, error |-> << >>]

\* main, loop body entered, and mirrorRepository up to its first await:
\* the scratch directory is made by mkdtempSync
StartRepo ==
  /\ pc = "main" /\ idx <= Len(repos)
  /\ \E t \in world.targetStates : target' = t /\ target0' = t
  /\ tempDirs' = tempDirs \cup {idx}
  /\ description' = "" /\ repoStatus' = NoStatus /\ updates' = NoUpdates
  /\ result' = NoResult /\ calls' = << >>
  /\ pc' = "sourceGet"
  /\ UNCHANGED <<helperCall, config, counters, idx, cwd, originalCwd, exitCode>>

\* a failed fetch that takes the description of the target as the desired one
FetchSourceDescriptionKeepTarget ==
  /\ pc = "sourceGet"
  /\ \/ /\ \E d \in world.sourceDescs : description' = OrEmpty(d)
        /\ Issue(Call("sourceGet", "ok"))
     \/ /\ description' = OrEmpty(target.description)
        /\ Issue(Call("sourceGet", "failed"))
  /\ pc' = "targetGet"
  /\ UNCHANGED <<helperCall, config, counters, idx, target, target0, repoStatus, updates,
                 tempDirs, cwd, originalCwd, result, exitCode>>

\* sourceOctokit.rest.repos.get: best effort
FetchSourceDescription ==
  /\ pc = "sourceGet"
  /\ \/ /\ \E d \in world.sourceDescs : description' = OrEmpty(d)
        /\ Issue(Call("sourceGet", "ok"))
     \/ /\ UNCHANGED description                \* failed: warning only
        /\ Issue(Call("sourceGet", "failed"))
  /\ pc' = "targetGet"
  /\ UNCHANGED <<helperCall, config, counters, idx, target, target0, repoStatus, updates,
                 tempDirs, cwd, originalCwd, result, exitCode>>

\* as EnsureRepositoryGet, the visibility compared whatever the setting of
\* overwrite-repo-visibility
EnsureRepositoryGetUngated ==
  /\ pc = "targetGet"
  /\ \/ /\ target.exists
        /\ Issue(Call("targetGet", "ok"))
        /\ LET visChange == target.visibility # repoConfig.visibility
               currentDescription == OrEmpty(target.description)
               targetDescription == OrEmpty(description)
               descChange == currentDescription # targetDescription
           IN /\ updates' =
                   [visibility |-> IF visChange THEN repoConfig.visibility ELSE Absent,
                    description |-> IF descChange THEN targetDescription ELSE Absent]
              /\ repoStatus' = [created |-> FALSE, visibilityUpdated |-> visChange,
                                descriptionUpdated |-> descChange]
              /\ pc' = IF visChange \/ descChange THEN "update" ELSE AfterEnsure
        /\ UNCHANGED result
     \/ /\ ~target.exists                       \* error.status === 404
        /\ Issue(Call("targetGet", "notFound"))
        /\ pc' = "create"
        /\ UNCHANGED <<updates, repoStatus, result>>
     \/ /\ Issue(Call("targetGet", "failed"))   \* any other error: rethrown
        /\ result' = Thrown(FailedToQuery \o ApiErrorMessage)
        /\ pc' = "returned"
        /\ UNCHANGED <<updates, repoStatus>>
  /\ UNCHANGED <<helperCall, config, counters, idx, target, target0, description, tempDirs,
                 cwd, originalCwd, exitCode>>

\* a get that treats every error as the not-found signal
EnsureRepositoryGetAnyErrorCreates ==
  /\ pc = "targetGet"
  /\ \/ /\ target.exists
        /\ Issue(Call("targetGet", "ok"))
        /\ LET visChange == OVERWRITE_VISIBILITY
                              /\ target.visibility # repoConfig.visibility
               currentDescription == OrEmpty(target.description)
               targetDescription == OrEmpty(description)
               descChange == currentDescription # targetDescription
           IN /\ updates' =
                   [visibility |-> IF visChange THEN repoConfig.visibility ELSE Absent,
                    description |-> IF descChange THEN targetDescription ELSE Absent]
              /\ repoStatus' = [created |-> FALSE, visibilityUpdated |-> visChange,
                                descriptionUpdated |-> descChange]
              /\ pc' = IF visChange \/ descChange THEN "update" ELSE AfterEnsure
        /\ UNCHANGED result
     \/ /\ ~target.exists
        /\ Issue(Call("targetGet", "notFound"))
        /\ pc' = "create"
        /\ UNCHANGED <<updates, repoStatus, result>>
     \/ /\ Issue(Call("targetGet", "failed"))
        /\ pc' = "create"
        /\ UNCHANGED <<updates, repoStatus, result>>
  /\ UNCHANGED <<helperCall, config, counters, idx, target, target0, description, tempDirs,
                 cwd, originalCwd, exitCode>>

\* ensureRepository: the get, and on success the two checks that stage updates
EnsureRepositoryGet ==
  /\ pc = "targetGet"
  /\ \/ /\ target.exists
        /\ Issue(Call("targetGet", "ok"))
        /\ LET visChange == OVERWRITE_VISIBILITY
                              /\ target.visibility # repoConfig.visibility
               currentDescription == OrEmpty(target.description)
               targetDescription == OrEmpty(description)
               descChange == currentDescription # targetDescription
           IN /\ updates' =
                   [visibility |-> IF visChange THEN repoConfig.visibility ELSE Absent,
                    description |-> IF descChange THEN targetDescription ELSE Absent]
              /\ repoStatus' = [created |-> FALSE, visibilityUpdated |-> visChange,
                                descriptionUpdated |-> descChange]
              /\ pc' = IF visChange \/ descChange THEN "update" ELSE AfterEnsure
        /\ UNCHANGED result
     \/ /\ ~target.exists                       \* error.status === 404
        /\ Issue(Call("targetGet", "notFound"))
        /\ pc' = "create"
        /\ UNCHANGED <<updates, repoStatus, result>>
     \/ /\ Issue(Call("targetGet", "failed"))   \* any other error: rethrown
        /\ result' = Thrown(FailedToQuery \o ApiErrorMessage)
        /\ pc' = "returned"
        /\ UNCHANGED <<updates, repoStatus>>
  /\ UNCHANGED <<helperCall, config, counters, idx, target, target0, description, tempDirs,
                 cwd, originalCwd, exitCode>>

\* an update call that sends the staged description alone
UpdateCallDescriptionOnly(outcome) ==
  [Call("update", outcome) EXCEPT !.description = updates.description]

UpdateCall(outcome) ==
  [Call("update", outcome) EXCEPT !.visibility = updates.visibility,
                                  !.description = updates.description]

\* an update call made only after the archived flag of the target was read
EnsureRepositoryUpdateAfterUnarchiveCheck ==
  /\ pc = "update"
  /\ \/ /\ target' = [target EXCEPT
                        !.visibility = IF updates.visibility = Absent THEN @
                                       ELSE updates.visibility,
                        !.description = IF updates.description = Absent THEN @
                                        ELSE updates.description]
        /\ calls' = Append(Append(calls,
                       [Call("unarchiveGet", "ok") EXCEPT
                          !.archived = IF target.archived THEN "true" ELSE "false"]),
                       UpdateCall("ok"))
     \/ /\ UNCHANGED target
        /\ Issue(UpdateCall("failed"))
  /\ pc' = AfterEnsure
  /\ UNCHANGED <<helperCall, config, counters, idx, target0, description, repoStatus,
                 updates, tempDirs, cwd, originalCwd, result, exitCode>>

\* ensureRepository: the combined update call, its failure only warned about
EnsureRepositoryUpdate ==
  /\ pc = "update"
  /\ \/ /\ target' = [target EXCEPT
                        !.visibility = IF updates.visibility = Absent THEN @
                                       ELSE updates.visibility,
                        !.description = IF updates.description = Absent THEN @
                                        ELSE updates.description]
        /\ Issue(UpdateCall("ok"))
     \/ /\ UNCHANGED target
        /\ Issue(UpdateCall("failed"))
  /\ pc' = AfterEnsure
  /\ UNCHANGED <<helperCall, config, counters, idx, target0, description, repoStatus,
                 updates, tempDirs, cwd, originalCwd, result, exitCode>>

\* a create call whose private flag is set for visibility private only
CreateCallInternalNotPrivate(outcome) ==
  LET isPrivate == repoConfig.visibility = "private"
  IN [Call("create", outcome) EXCEPT
        !.private = IF isPrivate THEN "true" ELSE "false",
        !.visibility = repoConfig.visibility,
        !.description = description]

CreateCall(outcome) ==
  LET isPrivate == repoConfig.visibility = "private"
                     \/ repoConfig.visibility = "internal"
  IN [Call("create", outcome) EXCEPT
        !.private = IF isPrivate THEN "true" ELSE "false",
        !.visibility = repoConfig.visibility,
        !.description = description]

\* as EnsureRepositoryCreate, a failed creation only warned about
EnsureRepositoryCreateSwallow ==
  /\ pc = "create"
  /\ \/ /\ target' = [exists |-> TRUE, visibility |-> repoConfig.visibility,
                      description |-> description, archived |-> FALSE,
                      actionsEnabled |-> TRUE]
        /\ repoStatus' = [repoStatus EXCEPT !.created = TRUE]
        /\ Issue(CreateCall("ok"))
     \/ /\ Issue(CreateCall("failed"))
        /\ UNCHANGED <<target, repoStatus>>
  /\ pc' = AfterEnsure
  /\ UNCHANGED <<helperCall, config, counters, idx, target0, description, updates,
                 tempDirs, cwd, originalCwd, result, exitCode>>

\* ensureRepository: createInOrg after a 404; a failure is rethrown
EnsureRepositoryCreate ==
  /\ pc = "create"
  /\ \/ /\ target' = [exists |-> TRUE, visibility |-> repoConfig.visibility,
                      description |-> description, archived |-> FALSE,
                      actionsEnabled |-> TRUE]
        /\ repoStatus' = [repoStatus EXCEPT !.created = TRUE]
        /\ Issue(CreateCall("ok"))
        /\ pc' = AfterEnsure
        /\ UNCHANGED result
     \/ /\ Issue(CreateCall("failed"))
        /\ result' = Thrown(FailedToCreate \o ApiErrorMessage)
        /\ pc' = "returned"
        /\ UNCHANGED <<target, repoStatus>>
  /\ UNCHANGED <<helperCall, config, counters, idx, target0, description, updates,
                 tempDirs, cwd, originalCwd, exitCode>>

\* the answer of repos.get as ensureRepositoryUnarchived logs it: the archived
\* flag the target has when the call is made
UnarchiveGetCall ==
  [Call("unarchiveGet", "ok") EXCEPT
     !.archived = IF target.archived THEN "true" ELSE "false"]

\* as UnarchiveGet, deciding from what the target was when the sync found it
UnarchiveGetStale ==
  /\ pc = "unarchiveGet"
  /\ \/ /\ Issue(UnarchiveGetCall)
        /\ pc' = IF target0.archived THEN "unarchive" ELSE AfterUnarchive
     \/ /\ Issue(Call("unarchiveGet", "failed"))
        /\ pc' = AfterUnarchive
  /\ UNCHANGED <<helperCall, config, counters, idx, target, target0, description,
                 repoStatus, updates, tempDirs, cwd, originalCwd, result,
                 exitCode>>

\* ensureRepositoryUnarchived: its own repos.get; a failure is only warned about
UnarchiveGet ==
  /\ pc = "unarchiveGet"
  /\ \/ /\ Issue(UnarchiveGetCall)
        /\ pc' = IF target.archived THEN "unarchive" ELSE AfterUnarchive
     \/ /\ Issue(Call("unarchiveGet", "failed"))     \* warning only
        /\ pc' = AfterUnarchive
  /\ UNCHANGED <<helperCall, config, counters, idx, target, target0, description,
                 repoStatus, updates, tempDirs, cwd, originalCwd, result,
                 exitCode>>

\* ensureRepositoryUnarchived: update with archived: false
UnarchiveUpdate ==
  /\ pc = "unarchive"
  /\ \/ /\ target' = [target EXCEPT !.archived = FALSE]
        /\ Issue([Call("update", "ok") EXCEPT !.archived = "false"])
     \/ /\ UNCHANGED target                          \* warning only
        /\ Issue([Call("update", "failed") EXCEPT !.archived = "false"])
  /\ pc' = AfterUnarchive
  /\ UNCHANGED <<helperCall, config, counters, idx, target0, description, repoStatus,
                 updates, tempDirs, cwd, originalCwd, result, exitCode>>

\* as DisableActions, a failure thrown to the caller
DisableActionsThrow ==
  /\ pc = "disableActions"
  /\ \/ /\ target' = [target EXCEPT !.actionsEnabled = FALSE]
        /\ Issue(Call("disableActions", "ok"))
        /\ pc' = "clone"
        /\ UNCHANGED result
     \/ /\ UNCHANGED target
        /\ Issue(Call("disableActions", "failed"))
        /\ result' = Thrown(ApiErrorMessage)
        /\ pc' = "returned"
  /\ UNCHANGED <<helperCall, config, counters, idx, target0, description, repoStatus,
                 updates, tempDirs, cwd, originalCwd, exitCode>>

\* as DisableActions, a failed call tried a second time
DisableActionsRetry ==
  /\ pc = "disableActions"
  /\ \/ /\ target' = [target EXCEPT !.actionsEnabled = FALSE]
        /\ Issue(Call("disableActions", "ok"))
        /\ pc' = "clone"
     \/ /\ UNCHANGED target
        /\ Issue(Call("disableActions", "failed"))
        /\ pc' = IF \E i \in DOMAIN calls : calls[i].op = "disableActions"
                 THEN "clone" ELSE "disableActions"
  /\ UNCHANGED <<helperCall, config, counters, idx, target0, description, repoStatus,
                 updates, tempDirs, cwd, originalCwd, result, exitCode>>

\* disableActions: setGithubActionsPermissionsRepository(enabled: false)
DisableActions ==
  /\ pc = "disableActions"
  /\ \/ /\ target' = [target EXCEPT !.actionsEnabled = FALSE]
        /\ Issue(Call("disableActions", "ok"))
     \/ /\ UNCHANGED target                          \* warning only
        /\ Issue(Call("disableActions", "failed"))
  /\ pc' = "clone"
  /\ UNCHANGED <<helperCall, config, counters, idx, target0, description, repoStatus,
                 updates, tempDirs, cwd, originalCwd, result, exitCode>>

\* a finally block without process.chdir(originalCwd)
FinallyNoChdir(log, outcome, restoreTo) ==
  /\ cwd' = cwd
  /\ \E rmOk \in world.rmOk :
       /\ tempDirs' = IF rmOk THEN tempDirs \ {idx} ELSE tempDirs
       /\ calls' = Append(log, Call("rm", IF rmOk THEN "ok" ELSE "failed"))
  /\ result' = outcome
  /\ pc' = "returned"

\* the finally block, followed by the return of `outcome`: chdir back to
\* originalCwd (restoreTo) and `rm -rf` of the scratch directory, whose
\* failure is ignored
Finally(log, outcome, restoreTo) ==
  /\ cwd' = restoreTo
  /\ \E rmOk \in world.rmOk :
       /\ tempDirs' = IF rmOk THEN tempDirs \ {idx} ELSE tempDirs
       /\ calls' = Append(log, Call("rm", IF rmOk THEN "ok" ELSE "failed"))
  /\ result' = outcome
  /\ pc' = "returned"

\* a clone whose failed command never settles: the repository stays in its clone step
CloneHang ==
  /\ pc = "clone"
  /\ originalCwd' = cwd
  /\ \/ /\ cwd' = "repoDir"
        /\ Issue(Call("clone", "ok"))
        /\ pc' = "pushBranches"
        /\ UNCHANGED <<tempDirs, result>>
     \/ /\ Issue(Call("clone", "failed"))
        /\ pc' = "hung"
        /\ UNCHANGED <<cwd, tempDirs, result>>
  /\ UNCHANGED <<helperCall, config, counters, idx, target, target0, description,
                 repoStatus, updates, exitCode>>

\* const originalCwd = process.cwd(), then the mirror clone
Clone ==
  /\ pc = "clone"
  /\ originalCwd' = cwd
  /\ \/ /\ cwd' = "repoDir"
        /\ Issue(Call("clone", "ok"))
        /\ pc' = "pushBranches"
        /\ UNCHANGED <<tempDirs, result>>
     \/ Finally(Append(calls, Call("clone", "failed")),
                FailedOutcome(ExecCommandError(CloneCommand(SOURCE_GITHUB_TOKEN))),
                cwd)
  /\ UNCHANGED <<helperCall, config, counters, idx, target, target0, description,
                 repoStatus, updates, exitCode>>

\* as PushBranches, a failed push logged and the tags pushed all the same
PushBranchesCarryOn ==
  /\ pc = "pushBranches"
  /\ \/ Issue(Call("pushBranches", "ok"))
     \/ Issue(Call("pushBranches", "failed"))
  /\ pc' = "pushTags"
  /\ UNCHANGED <<helperCall, config, counters, idx, target, target0, description,
                 repoStatus, updates, tempDirs, cwd, originalCwd, result,
                 exitCode>>

\* git push of refs/heads/*
PushBranches ==
  /\ pc = "pushBranches"
  /\ \/ /\ Issue(Call("pushBranches", "ok"))
        /\ pc' = "pushTags"
        /\ UNCHANGED <<tempDirs, cwd, result>>
     \/ LET sanitizedError ==
              sanitizeError(ExecCommandError(
                PushCommand(TARGET_GITHUB_TOKEN, FORCE_PUSH, HeadsRefspec)))
        IN Finally(Append(calls, Call("pushBranches", "failed")),
                   FailedOutcome(FailedToPushBranches \o sanitizedError),
                   originalCwd)
  /\ UNCHANGED <<helperCall, config, counters, idx, target, target0, description,
                 repoStatus, updates, originalCwd, exitCode>>

\* as PushTags, the archive step entered whatever archive-after-sync says
PushTagsAlwaysArchive ==
  /\ pc = "pushTags"
  /\ \/ /\ Issue(Call("pushTags", "ok"))
        /\ pc' = "archive"
        /\ UNCHANGED <<tempDirs, cwd, result>>
     \/ LET sanitizedError ==
              sanitizeError(ExecCommandError(
                PushCommand(TARGET_GITHUB_TOKEN, FORCE_PUSH, TagsRefspec)))
        IN Finally(Append(calls, Call("pushTags", "failed")),
                   FailedOutcome(FailedToPushTags \o sanitizedError),
                   originalCwd)
  /\ UNCHANGED <<helperCall, config, counters, idx, target, target0, description,
                 repoStatus, updates, originalCwd, exitCode>>

\* a tag push that answers its failure by pushing the branches once more
PushTagsRepushBranches ==
  /\ pc = "pushTags"
  /\ \/ /\ repoConfig.archiveAfterSync
        /\ Issue(Call("pushTags", "ok"))
        /\ pc' = "archive"
        /\ UNCHANGED <<tempDirs, cwd, result>>
     \/ /\ ~repoConfig.archiveAfterSync
        /\ Finally(Append(calls, Call("pushTags", "ok")), SuccessOutcome(FALSE),
                   originalCwd)
     \/ LET sanitizedError ==
              sanitizeError(ExecCommandError(
                PushCommand(TARGET_GITHUB_TOKEN, FORCE_PUSH, TagsRefspec)))
        IN Finally(Append(Append(calls, Call("pushTags", "failed")),
                          Call("pushBranches", "ok")),
                   FailedOutcome(FailedToPushTags \o sanitizedError),
                   originalCwd)
  /\ UNCHANGED <<helperCall, config, counters, idx, target, target0, description,
                 repoStatus, updates, originalCwd, exitCode>>

\* git push of refs/tags/*; without archive-after-sync the success outcome
\* is returned here
PushTags ==
  /\ pc = "pushTags"
  /\ \/ /\ repoConfig.archiveAfterSync
        /\ Issue(Call("pushTags", "ok"))
        /\ pc' = "archive"
        /\ UNCHANGED <<tempDirs, cwd, result>>
     \/ /\ ~repoConfig.archiveAfterSync
        /\ Finally(Append(calls, Call("pushTags", "ok")), SuccessOutcome(FALSE),
                   originalCwd)
     \/ LET sanitizedError ==
              sanitizeError(ExecCommandError(
                PushCommand(TARGET_GITHUB_TOKEN, FORCE_PUSH, TagsRefspec)))
        IN Finally(Append(calls, Call("pushTags", "failed")),
                   FailedOutcome(FailedToPushTags \o sanitizedError),
                   originalCwd)
  /\ UNCHANGED <<helperCall, config, counters, idx, target, target0, description,
                 repoStatus, updates, originalCwd, exitCode>>

ArchiveCall(outcome) == [Call("update", outcome) EXCEPT !.archived = "true"]

\* an archive step that archives only a target the sync had found archived
ArchiveRepositoryIfWasArchived ==
  /\ pc = "archive"
  /\ \/ /\ target0.archived
        /\ target' = [target EXCEPT !.archived = TRUE]
        /\ Finally(Append(calls, ArchiveCall("ok")), SuccessOutcome(TRUE),
                   originalCwd)
     \/ /\ target0.archived
        /\ UNCHANGED target
        /\ Finally(Append(calls, ArchiveCall("failed")), SuccessOutcome(FALSE),
                   originalCwd)
     \/ /\ ~target0.archived
        /\ UNCHANGED target
        /\ Finally(calls, SuccessOutcome(FALSE), originalCwd)
  /\ UNCHANGED <<helperCall, config, counters, idx, target0, description, repoStatus,
                 updates, originalCwd, exitCode>>

\* archiveRepository: update with archived: true, then the success outcome
ArchiveRepository ==
  /\ pc = "archive"
  /\ \/ /\ target' = [target EXCEPT !.archived = TRUE]
        /\ Finally(Append(calls, ArchiveCall("ok")), SuccessOutcome(TRUE),
                   originalCwd)
     \/ /\ UNCHANGED target                          \* warning only
        /\ Finally(Append(calls, ArchiveCall("failed")), SuccessOutcome(FALSE),
                   originalCwd)
  /\ UNCHANGED <<helperCall, config, counters, idx, target0, description, repoStatus,
                 updates, originalCwd, exitCode>>

\* ------------------------------------------------------------------------ main
Bump(counter, cond) == IF cond THEN counter + 1 ELSE counter

FoldSuccess ==
  /\ successful' = successful + 1
  /\ created' = Bump(created, result.created)
  /\ updated' = Bump(updated, ~result.created)
  /\ visibilityUpdated' = Bump(visibilityUpdated, result.visibilityUpdated)
  /\ descriptionUpdated' = Bump(descriptionUpdated, result.descriptionUpdated)
  /\ archived' = Bump(archived, result.archived)
  /\ processed' = Append(processed, [repo |-> idx, how |-> "success"])
  /\ UNCHANGED <<failed, failedRepos>>

\* a failure branch that puts the new entry at the head of the list
FoldFailurePrepend(how) ==
  /\ failed' = failed + 1
  /\ failedRepos' = <<[repo |-> idx, error |-> result.error]>> \o failedRepos
  /\ processed' = Append(processed, [repo |-> idx, how |-> how])
  /\ UNCHANGED <<successful, created, updated, visibilityUpdated,
                 descriptionUpdated, archived>>

FoldFailure(how) ==
  /\ failed' = failed + 1
  /\ failedRepos' = Append(failedRepos, [repo |-> idx, error |-> result.error])
  /\ processed' = Append(processed, [repo |-> idx, how |-> how])
  /\ UNCHANGED <<successful, created, updated, visibilityUpdated,
                 descriptionUpdated, archived>>

\* as Fold, without the try/catch of the loop body: a throw of
\* mirrorRepository leaves main and the process exits with status 1
FoldNoCatch ==
  /\ pc = "returned"
  /\ IF result.kind = "thrown"
     THEN /\ exitCode' = 1 /\ pc' = "exit"
          /\ UNCHANGED <<counters, idx>>
     ELSE /\ IF result.success THEN FoldSuccess ELSE FoldFailure("failed")
          /\ idx' = idx + 1 /\ pc' = "main"
          /\ UNCHANGED exitCode
  /\ UNCHANGED <<helperCall, config, target, target0, description, repoStatus, updates,
                 tempDirs, cwd, originalCwd, result, calls>>

\* as Fold, the catch branch not counting the failure
FoldCatchNoCount ==
  /\ pc = "returned"
  /\ IF result.kind = "value" /\ result.success THEN FoldSuccess
     ELSE IF result.kind = "value" THEN FoldFailure("failed")
     ELSE /\ failedRepos' = Append(failedRepos, [repo |-> idx, error |-> result.error])
          /\ processed' = Append(processed, [repo |-> idx, how |-> "caught"])
          /\ UNCHANGED <<successful, failed, created, updated,
                         visibilityUpdated, descriptionUpdated, archived>>
  /\ idx' = idx + 1
  /\ pc' = "main"
  /\ UNCHANGED <<helperCall, config, target, target0, description, repoStatus, updates,
                 tempDirs, cwd, originalCwd, result, calls, exitCode>>

\* as Fold, counting a created target whether or not its repository succeeded
FoldCreatedOnFailure ==
  /\ pc = "returned"
  /\ IF result.kind = "value" /\ result.success THEN FoldSuccess
     ELSE /\ failed' = failed + 1
          /\ failedRepos' = Append(failedRepos, [repo |-> idx, error |-> result.error])
          /\ processed' = Append(processed,
                [repo |-> idx,
                 how |-> IF result.kind = "value" THEN "failed" ELSE "caught"])
          /\ created' = Bump(created, repoStatus.created)
          /\ UNCHANGED <<successful, updated, visibilityUpdated,
                         descriptionUpdated, archived>>
  /\ idx' = idx + 1
  /\ pc' = "main"
  /\ UNCHANGED <<helperCall, config, target, target0, description, repoStatus, updates,
                 tempDirs, cwd, originalCwd, result, calls, exitCode>>

\* main: what the loop body does with the outcome of mirrorRepository: the
\* success branch, the else branch ("failed") or the catch clause ("caught")
Fold ==
  /\ pc = "returned"
  /\ IF result.kind = "value" /\ result.success THEN FoldSuccess
     ELSE IF result.kind = "value" THEN FoldFailure("failed")
     ELSE FoldFailure("caught")
  /\ idx' = idx + 1
  /\ pc' = "main"
  /\ UNCHANGED <<helperCall, config, target, target0, description, repoStatus, updates,
                 tempDirs, cwd, originalCwd, result, calls, exitCode>>

\* main: repos.length === 0, return
NoRepositories ==
  /\ pc = "main" /\ Len(repos) = 0
  /\ exitCode' = 0
  /\ pc' = "exit"
  /\ UNCHANGED <<helperCall, config, counters, idx, target, target0, description,
                 repoStatus, updates, tempDirs, cwd, originalCwd, result, calls>>

\* as Summary, the process never exiting with status 1
SummaryExitZero ==
  /\ pc = "main" /\ Len(repos) > 0 /\ idx > Len(repos)
  /\ exitCode' = 0
  /\ pc' = "exit"
  /\ UNCHANGED <<helperCall, config, counters, idx, target, target0, description,
                 repoStatus, updates, tempDirs, cwd, originalCwd, result, calls>>

\* main: the summary; process.exit(1) when failedRepos is not empty
Summary ==
  /\ pc = "main" /\ Len(repos) > 0 /\ idx > Len(repos)
  /\ exitCode' = IF Len(failedRepos) > 0 THEN 1 ELSE 0
  /\ pc' = "exit"
  /\ UNCHANGED <<helperCall, config, counters, idx, target, target0, description,
                 repoStatus, updates, tempDirs, cwd, originalCwd, result, calls>>

Next ==
  \/ StartRepo
  \/ FetchSourceDescription
  \/ EnsureRepositoryGet
  \/ EnsureRepositoryUpdate
  \/ EnsureRepositoryCreate
  \/ UnarchiveGet
  \/ UnarchiveUpdate
  \/ DisableActions
  \/ Clone
  \/ PushBranches
  \/ PushTags
  \/ ArchiveRepository
  \/ Fold
  \/ NoRepositories
  \/ Summary

Spec == Init /\ [][Next]_vars

\* one repository (or none) with every configuration, every target state and
\* both settings of overwrite-repo-visibility
InitRepo ==
  /\ SOURCE_GITHUB_TOKEN = TokenS /\ TARGET_GITHUB_TOKEN = TokenT
  /\ OVERWRITE_VISIBILITY \in BOOLEAN /\ FORCE_PUSH = FALSE
  /\ repos \in SeqsUpTo(RepoConfigs, 1)
  /\ world = AnyWorld
  /\ InitRun /\ NoHelperCall

SpecRepo == InitRepo /\ [][Next]_vars

\* one repository (or none) and every pair of token values
InitCred ==
  /\ SOURCE_GITHUB_TOKEN \in TokenValues /\ TARGET_GITHUB_TOKEN \in TokenValues
  /\ OVERWRITE_VISIBILITY = FALSE /\ FORCE_PUSH \in BOOLEAN
  /\ repos \in SeqsUpTo(RunConfigs, 1)
  /\ world = CredWorld
  /\ InitRun /\ NoHelperCall

SpecCred == InitCred /\ [][Next]_vars

TypeOK ==
  /\ pc \in {"load", "readList", "main", "sourceGet", "targetGet", "update", "create",
             "unarchiveGet", "unarchive", "disableActions", "clone",
             "pushBranches", "pushTags", "archive", "returned", "exit"}
  /\ idx \in 1..(Len(repos) + 1)
  /\ exitCode \in {-1, 0, 1}
  /\ cwd \in {"original", "repoDir"}
  /\ tempDirs \subseteq 1..Len(repos)
  /\ hpc \in {"idle", "error", "sanitized", "resanitized", "threw",
              "url", "derived", "rederived"}
  /\ threw \in BOOLEAN
  /\ warnings \in 0..2


\* ---------------------------------------------------------------- properties
\* calls holds the calls of repos[idx] while mirrorRepository runs and when it
\* has just returned
InRepo == pc \notin {"main", "exit"}

Issued(op, outcome) ==
  \E i \in DOMAIN calls : calls[i].op = op /\ calls[i].outcome = outcome
Attempted(op) == \E i \in DOMAIN calls : calls[i].op = op

\* the three kinds of update call differ in the archived field they send
IssuedArchive(outcome, flag) ==
  \E i \in DOMAIN calls :
    calls[i].op = "update" /\ calls[i].archived = flag /\ calls[i].outcome = outcome
AttemptedArchive(flag) ==
  \E i \in DOMAIN calls : calls[i].op = "update" /\ calls[i].archived = flag

\* calls[i] was issued after a successful call of op
After(i, op) == \E j \in 1..(i - 1) : calls[j].op = op /\ calls[j].outcome = "ok"

FatalReconcileFailure == Issued("targetGet", "failed") \/ Issued("create", "failed")
TransferSucceeded ==
  Issued("clone", "ok") /\ Issued("pushBranches", "ok") /\ Issued("pushTags", "ok")
TransferFailed ==
  Issued("clone", "failed") \/ Issued("pushBranches", "failed")
    \/ Issued("pushTags", "failed")

\* C1: main processes every listed repository exactly once and in list
\* order, whatever failed: the k-th repository handled by the loop body is
\* repos[k], the loop is at the repository after the last one handled, and
\* the run exits only when all of them were handled
C1_FailureIsolation ==
  /\ Len(processed) = idx - 1
  /\ \A k \in DOMAIN processed : processed[k].repo = k
  /\ (pc = "exit" => Len(processed) = Len(repos))

\* a run that ended, whose first repository threw out of mirrorRepository and
\* whose second one was mirrored
C1_Witness ==
  /\ pc = "exit" /\ Len(repos) >= 2
  /\ processed[1].how = "caught" /\ processed[2].how = "success"

\* C2: when mirrorRepository hands control back to the loop of main, the
\* scratch directory it made for this repository is gone, on every exit path
C2_ScratchRemoved == pc = "returned" => idx \notin tempDirs

ValidToken(token) ==
  /\ Len(token) \in 1..CREDENTIAL_MAX_RUN
  /\ \A i \in DOMAIN token : token[i] # "@"

LeaksToken(text) ==
  Contains(text, SOURCE_GITHUB_TOKEN) \/ Contains(text, TARGET_GITHUB_TOKEN)

\* C3 as stated: whatever the two tokens are, the error text of a failed
\* outcome and of every entry of the failure list contains neither token
C3_NoTokenInErrors ==
  /\ (pc = "returned" /\ TransferFailed => ~LeaksToken(result.error))
  /\ \A k \in DOMAIN failedRepos : ~LeaksToken(failedRepos[k].error)

\* C3 amended: when both tokens have 1 to 200 characters and no '@', the error
\* text of a failed outcome and of every entry of the failure list contains
\* neither token
C3_NoValidTokenInErrors ==
  ValidToken(SOURCE_GITHUB_TOKEN) /\ ValidToken(TARGET_GITHUB_TOKEN)
    => C3_NoTokenInErrors

\* the branch push failed with a target token of 200 characters, and the
\* error of the outcome shows the redacted credential
C3_Witness ==
  /\ pc = "returned" /\ Issued("pushBranches", "failed")
  /\ Len(TARGET_GITHUB_TOKEN) = CREDENTIAL_MAX_RUN
  /\ ValidToken(SOURCE_GITHUB_TOKEN) /\ ValidToken(TARGET_GITHUB_TOKEN)
  /\ Contains(result.error, CREDENTIAL_REPLACEMENT)

\* C4: once the branch push has failed the tag push is not attempted, the
\* repository's processing is over and its outcome is success=false
C4_NoTagsAfterFailedBranches ==
  Issued("pushBranches", "failed") =>
    /\ ~Attempted("pushTags")
    /\ pc \in {"returned", "main", "exit"}
    /\ result.kind = "value" /\ ~result.success

C4_Witness ==
  /\ pc = "returned" /\ Issued("pushBranches", "failed")
  /\ Issued("clone", "ok") /\ ~result.success

\* C5: an archive call (update with archived=true) is made only for a
\* repository whose config asks for archive-after-sync, and only after the
\* clone, the branch push and the tag push of that repository succeeded
C5_ArchiveOnlyAfterSuccess ==
  InRepo =>
    \A i \in DOMAIN calls :
      calls[i].op = "update" /\ calls[i].archived = "true" =>
        /\ repoConfig.archiveAfterSync
        /\ After(i, "clone") /\ After(i, "pushBranches") /\ After(i, "pushTags")
        /\ ~TransferFailed

C5_Witness ==
  /\ pc = "returned" /\ IssuedArchive("ok", "true")
  /\ result.success /\ result.archived

\* the case C6 is about: archive-after-sync, the target archived at the start
C6_Case ==
  InRepo /\ repoConfig.archiveAfterSync /\ target0.exists /\ target0.archived

C6_Transfer == pc \in {"clone", "pushBranches", "pushTags", "archive"}

C6_Conclusion ==
  /\ (C6_Transfer => ~target.archived)
  /\ (pc = "returned" /\ TransferFailed => ~target.archived)
  /\ (Attempted("clone") /\ target.archived =>
        TransferSucceeded /\ IssuedArchive("ok", "true"))

AnyFailed == \E k \in DOMAIN processed : processed[k].how # "success"

\* C7: when the run has ended the status is non-zero exactly when at least
\* one repository failed
C7_ExitStatus == pc = "exit" => (exitCode # 0 <=> AnyFailed)

C7_Witness ==
  /\ pc = "exit" /\ exitCode = 1 /\ successful >= 1 /\ failed >= 1

HowCount(how) == Cardinality({k \in DOMAIN processed : processed[k].how = how})

\* C8: at the end of a run over N repositories successful + failed = N; when
\* the reconcile step of exactly one repository raised and all others were
\* mirrored, failed = 1, successful = N - 1 and the status is non-zero
C8_SummaryCounts ==
  pc = "exit" =>
    /\ successful + failed = Len(repos)
    /\ (HowCount("caught") = 1 /\ HowCount("success") = Len(repos) - 1 =>
          failed = 1 /\ successful = Len(repos) - 1 /\ exitCode # 0)

C8_Witness ==
  /\ pc = "exit" /\ Len(repos) >= 2
  /\ HowCount("caught") = 1 /\ HowCount("success") = Len(repos) - 1

\* C9: after a target fetch that failed with anything but not-found, or a
\* create call that failed, nothing else is done for the repository (no
\* unarchive check, no Actions-disable, no clone, no push, no archive call) and
\* main records it as failed
C9_FatalReconcileStops ==
  FatalReconcileFailure =>
    /\ ~Attempted("unarchiveGet") /\ ~AttemptedArchive("false")
    /\ ~AttemptedArchive("true") /\ ~Attempted("disableActions")
    /\ ~Attempted("clone") /\ ~Attempted("pushBranches") /\ ~Attempted("pushTags")
    /\ pc \in {"returned", "main", "exit"}
    /\ result.kind = "thrown"
    /\ (pc \in {"main", "exit"} =>
          /\ processed[Len(processed)].how = "caught"
          /\ failedRepos[Len(failedRepos)].repo = Len(processed)
          /\ failed >= 1)

C9_Witness ==
  /\ pc = "main" /\ Issued("targetGet", "notFound") /\ Issued("create", "failed")
  /\ failed = 1

\* C10: the success flag of a repository depends on the reconcile step and on
\* the transfer only: mirrorRepository throws exactly when the target fetch
\* or the create call failed, and otherwise returns success exactly when the
\* clone and both pushes succeeded, whichever best-effort call failed
C10_BestEffortNeverFails ==
  pc = "returned" =>
    /\ (result.kind = "thrown" <=> FatalReconcileFailure)
    /\ (result.kind = "value" /\ result.success <=> TransferSucceeded)
    /\ (result.kind = "value" /\ ~result.success <=> TransferFailed)

\* a successful outcome although the source fetch, the metadata update, the
\* unarchive call, the Actions-disable call and the archive call all failed
C10_Witness ==
  /\ pc = "returned" /\ result.kind = "value" /\ result.success
  /\ Issued("sourceGet", "failed")
  /\ \E i \in DOMAIN calls :
       calls[i].op = "update" /\ calls[i].archived = Absent
         /\ calls[i].outcome = "failed"
  /\ IssuedArchive("failed", "false")
  /\ Issued("disableActions", "failed")
  /\ IssuedArchive("failed", "true")

\* the update call that carries the staged visibility and description
MetadataUpdate(outcome) ==
  \E i \in DOMAIN calls :
    calls[i].op = "update" /\ calls[i].archived = Absent
      /\ calls[i].outcome = outcome

\* C11: when the metadata update call of an existing target fails, the sync
\* goes on and its outcome reports visibilityUpdated = false and
\* descriptionUpdated = false, since no change was applied on the target
C11_FailedUpdateFlagsStayFalse ==
  (pc = "returned" /\ result.kind = "value" /\ result.success
     /\ MetadataUpdate("failed"))
    => (~result.visibilityUpdated /\ ~result.descriptionUpdated)

\* ------------------------------------------- sanitizeError called directly
MaxPieces == 3

\* the pieces a message is put together from: plain text, text with a stray
\* '@', the bare credential prefix, a run that with the prefix and a token
\* after it is one character longer than the pattern allows, and the
\* credential with a short token, with a token of 200 and with one of 201
PieceNames == {"plain", "at", "prefix", "fill", "cred", "cred200", "cred201"}

Credential(token) == CREDENTIAL_PREFIX \o token \o <<"@">>

PieceText(name) ==
  CASE name = "plain" -> <<"f","a","t","a","l",":"," ">>
    [] name = "at" -> <<"a","@","b">>
    [] name = "prefix" -> CREDENTIAL_PREFIX
    [] name = "fill" ->
         Rep("k", CREDENTIAL_MAX_RUN + 1 - Len(CREDENTIAL_PREFIX) - Len(TokenS))
    [] name = "cred" -> Credential(TokenS)
    [] name = "cred200" -> Credential(Rep("k", CREDENTIAL_MAX_RUN))
    [] name = "cred201" -> Credential(Rep("k", CREDENTIAL_MAX_RUN + 1))

RECURSIVE Concat(_)
Concat(texts) ==
  IF texts = << >> THEN << >> ELSE Head(texts) \o Concat(Tail(texts))

MessageOf(pieces) == Concat([i \in DOMAIN pieces |-> PieceText(pieces[i])])

\* error objects handed to sanitizeError: the message property is a string
\* or is undefined
ErrorObjects ==
  {[kind |-> "error", defined |-> TRUE, pieces |-> ps, text |-> MessageOf(ps)] :
     ps \in SeqsUpTo(PieceNames, MaxPieces)}
  \cup {[kind |-> "error", defined |-> FALSE, pieces |-> << >>, text |-> NoText]}

\* the state of the run, which a direct call of a helper leaves alone
runState ==
  <<config, counters, pc, idx, target, target0, description, repoStatus,
    updates, tempDirs, cwd, originalCwd, result, calls, exitCode>>

InitSanitize ==
  /\ InitRun
  /\ SOURCE_GITHUB_TOKEN = TokenS /\ TARGET_GITHUB_TOKEN = TokenT
  /\ OVERWRITE_VISIBILITY = FALSE /\ FORCE_PUSH = FALSE
  /\ repos = << >> /\ world = RunWorld
  /\ hpc = "error" /\ arg \in ErrorObjects
  /\ ret = NoText /\ ret2 = NoText /\ threw = FALSE /\ warnings = 0

\* sanitizeError(error): reading .replace of an undefined message throws a
\* TypeError, a string message is redacted
SanitizeCall ==
  /\ hpc = "error"
  /\ IF arg.defined
     THEN /\ ret' = sanitizeError(arg.text) /\ hpc' = "sanitized"
          /\ UNCHANGED threw
     ELSE /\ threw' = TRUE /\ hpc' = "threw"
          /\ UNCHANGED ret
  /\ UNCHANGED <<arg, ret2, warnings>>
  /\ UNCHANGED runState

\* sanitizeError applied to a message it has already redacted
SanitizeAgain ==
  /\ hpc = "sanitized"
  /\ ret2' = sanitizeError(ret) /\ hpc' = "resanitized"
  /\ UNCHANGED <<arg, ret, threw, warnings>>
  /\ UNCHANGED runState

NextSanitize ==
  \/ SanitizeCall
  \/ SanitizeAgain

SpecSanitize == InitSanitize /\ [][NextSanitize]_vars

\* C12: sanitizeError is idempotent: redacting a message that was already
\* redacted gives the same text, also for nested prefixes and for runs near
\* the 200 bound
C12_SanitizeIdempotent ==
  hpc = "resanitized" => ret2 = ret

\* C13: sanitizeError called with an error whose message is undefined does
\* not throw
C13_UndefinedMessageNoThrow ==
  (hpc # "error" /\ ~arg.defined) => ~threw

\* the pattern x-access-token:<token>@ occurs in text at position i: the
\* prefix, a token of 1 to 200 characters other than '@', and '@'
OccursAt(text, i) ==
  /\ StartsWithAt(text, i, CREDENTIAL_PREFIX)
  /\ \E n \in 1..CREDENTIAL_MAX_RUN :
       LET j == i + Len(CREDENTIAL_PREFIX)
       IN /\ j + n <= Len(text)
          /\ text[j + n] = "@"
          /\ \A k \in 0..(n - 1) : text[j + k] # "@"

NoOccurrence(text) == \A i \in 1..Len(text) : ~OccursAt(text, i)

\* the pieces that are an occurrence of the pattern
Occurrences == {"cred", "cred200"}

\* no bare prefix among the pieces: the message splits in one way only into
\* occurrences of the pattern and text between them
Unambiguous(pieces) == \A i \in DOMAIN pieces : pieces[i] # "prefix"

\* the message with each occurrence replaced by x-access-token:***@
Redacted(pieces) ==
  Concat([i \in DOMAIN pieces |->
            IF pieces[i] \in Occurrences THEN CREDENTIAL_REPLACEMENT
            ELSE PieceText(pieces[i])])

\* C14: sanitizeError replaces every non-overlapping occurrence of
\* x-access-token:<token>@ (a token of 1 to 200 characters other than '@')
\* by x-access-token:***@ and leaves the rest of the message as it is; a
\* message without an occurrence is returned unchanged
C14_ReplacesEveryOccurrence ==
  (hpc \in {"sanitized", "resanitized"}) =>
    /\ Unambiguous(arg.pieces) => ret = Redacted(arg.pieces)
    /\ NoOccurrence(arg.text) => ret = arg.text

\* two occurrences with text between them, both replaced
C14_Witness ==
  /\ hpc = "sanitized"
  /\ arg.pieces = <<"cred", "at", "cred200">>
  /\ ret = CREDENTIAL_REPLACEMENT \o PieceText("at") \o CREDENTIAL_REPLACEMENT

\* a message that holds the prefix and an '@' but no occurrence of the
\* pattern comes back unchanged
C14_WitnessUnchanged ==
  /\ hpc = "sanitized"
  /\ arg.pieces = <<"cred201", "at">>
  /\ ret = arg.text

\* --------------------------------------- deriveInstanceUrl called directly
UpperCaseLetters ==
  <<"A","B","C","D","E","F","G","H","I","J","K","L","M","N","O","P","Q","R","S","T","U","V","W","X","Y","Z">>
LowerCaseLetters ==
  <<"a","b","c","d","e","f","g","h","i","j","k","l","m","n","o","p","q","r","s","t","u","v","w","x","y","z">>

Index(seq, c) == CHOOSE i \in DOMAIN seq : seq[i] = c
Elements(seq) == {seq[i] : i \in DOMAIN seq}

\* ASCII lower-casing, as the URL parser applies it to scheme and host
ToLowerCase(text) ==
  [i \in DOMAIN text |->
     IF text[i] \in Elements(UpperCaseLetters)
     THEN LowerCaseLetters[Index(UpperCaseLetters, text[i])] ELSE text[i]]

Digits == {"0","1","2","3","4","5","6","7","8","9"}
HostChars ==
  Elements(LowerCaseLetters) \cup Elements(UpperCaseLetters) \cup Digits
    \cup {"-", "."}

Https == <<"h","t","t","p","s">>
Http == <<"h","t","t","p">>
\* the port the URL parser takes as given for a scheme
DefaultPort(scheme) == IF scheme = Https THEN <<"4","4","3">> ELSE <<"8","0">>

\* position of the first character of text at or after position i that is in
\* chars, Len(text) + 1 if there is none
FirstOf(text, i, chars) ==
  Min({j \in i..(Len(text) + 1) : j = Len(text) + 1 \/ text[j] \in chars})

InvalidURL == [ok |-> FALSE, protocol |-> NoText, hostname |-> NoText, port |-> NoText]

\* a host the parser keeps as it is spelled
HostnameAsSpelled(host) == host

\* the hostname the parser stores: lower-cased
Hostname(host) == ToLowerCase(host)

\* new URL(apiUrl) for an absolute http or https URL without credentials:
\* the scheme up to the first ':', "//", the host up to '/', '?' or '#' with
\* an optional ":port"; scheme and host are lower-cased and the scheme's
\* default port is stored as the empty string.  Any other text makes the
\* constructor throw.
URL(apiUrl) ==
  LET colon == FirstOf(apiUrl, 1, {":"})
      scheme == ToLowerCase(SubSeq(apiUrl, 1, colon - 1))
      authEnd == FirstOf(apiUrl, colon + 3, {"/", "?", "#"})
      authority == SubSeq(apiUrl, colon + 3, authEnd - 1)
      portColon == FirstOf(authority, 1, {":"})
      host == SubSeq(authority, 1, portColon - 1)
      port == SubSeq(authority, portColon + 1, Len(authority))
  IN IF \/ colon > Len(apiUrl)
        \/ scheme \notin {Https, Http}
        \/ ~StartsWithAt(apiUrl, colon, <<":","/","/">>)
        \/ host = NoText
        \/ \E i \in DOMAIN host : host[i] \notin HostChars
        \/ \E i \in DOMAIN port : port[i] \notin Digits
     THEN InvalidURL
     ELSE [ok |-> TRUE, protocol |-> scheme \o <<":">>,
           hostname |-> Hostname(host),
           port |-> IF port = DefaultPort(scheme) THEN NoText ELSE port]

ApiGithubCom == <<"a","p","i",".","g","i","t","h","u","b",".","c","o","m">>
HttpsGithubCom == <<"h","t","t","p","s",":","/","/","g","i","t","h","u","b",".","c","o","m">>
ApiDot == <<"a","p","i",".">>

\* a prefix test that leaves out the dot
StripApiLetters(hostname) ==
  IF StartsWithAt(hostname, 1, SubSeq(ApiDot, 1, Len(ApiDot) - 1))
  THEN SubSeq(hostname, Len(ApiDot) + 1, Len(hostname)) ELSE hostname

\* if (hostname.startsWith('api.')) hostname = hostname.substring(4)
StripApiPrefix(hostname) ==
  IF StartsWithAt(hostname, 1, ApiDot)
  THEN SubSeq(hostname, Len(ApiDot) + 1, Len(hostname)) ELSE hostname

\* a deriveInstanceUrl that warns on every call
DeriveAlwaysWarns(apiUrl) ==
  LET url == URL(apiUrl)
  IN IF ~url.ok THEN [value |-> apiUrl, warnings |-> 1]
     ELSE IF url.hostname = ApiGithubCom
     THEN [value |-> HttpsGithubCom, warnings |-> 1]
     ELSE [value |-> url.protocol \o <<"/","/">> \o StripApiPrefix(url.hostname)
                       \o (IF url.port # NoText THEN <<":">> \o url.port ELSE NoText),
           warnings |-> 1]

\* deriveInstanceUrl(apiUrl): the value returned and the number of warnings
deriveInstanceUrl(apiUrl) ==
  LET url == URL(apiUrl)
  IN IF ~url.ok THEN [value |-> apiUrl, warnings |-> 1]
     ELSE IF url.hostname = ApiGithubCom
     THEN [value |-> HttpsGithubCom, warnings |-> 0]
     ELSE [value |-> url.protocol \o <<"/","/">> \o StripApiPrefix(url.hostname)
                       \o (IF url.port # NoText THEN <<":">> \o url.port ELSE NoText),
           warnings |-> 0]

\* the spellings of a scheme and the scheme they stand for
Schemes ==
  {[text |-> Https, scheme |-> Https],
   [text |-> Http, scheme |-> Http],
   [text |-> <<"H","T","T","P","S">>, scheme |-> Https]}

\* the spellings of a host, the hostname they stand for and that hostname
\* without one leading "api."
Hosts ==
  {[text |-> <<"a","p","i",".","g","i","t","h","u","b",".","c","o","m">>,
    hostname |-> <<"a","p","i",".","g","i","t","h","u","b",".","c","o","m">>,
    stripped |-> <<"g","i","t","h","u","b",".","c","o","m">>],
   [text |-> <<"A","P","I",".","G","i","t","H","u","b",".","c","o","m">>,
    hostname |-> <<"a","p","i",".","g","i","t","h","u","b",".","c","o","m">>,
    stripped |-> <<"g","i","t","h","u","b",".","c","o","m">>],
   [text |-> <<"g","i","t","h","u","b",".","c","o","m">>,
    hostname |-> <<"g","i","t","h","u","b",".","c","o","m">>,
    stripped |-> <<"g","i","t","h","u","b",".","c","o","m">>],
   [text |-> <<"g","h","e",".","i","o">>,
    hostname |-> <<"g","h","e",".","i","o">>,
    stripped |-> <<"g","h","e",".","i","o">>],
   [text |-> <<"a","p","i",".","g","h","e",".","i","o">>,
    hostname |-> <<"a","p","i",".","g","h","e",".","i","o">>,
    stripped |-> <<"g","h","e",".","i","o">>],
   [text |-> <<"A","p","i",".","G","H","E",".","i","o">>,
    hostname |-> <<"a","p","i",".","g","h","e",".","i","o">>,
    stripped |-> <<"g","h","e",".","i","o">>],
   [text |-> <<"a","p","i",".","a","p","i",".","g","h","e",".","i","o">>,
    hostname |-> <<"a","p","i",".","a","p","i",".","g","h","e",".","i","o">>,
    stripped |-> <<"a","p","i",".","g","h","e",".","i","o">>],
   [text |-> <<"a","p","i",".","a","p","i",".","g","i","t","h","u","b",".","c","o","m">>,
    hostname |-> <<"a","p","i",".","a","p","i",".","g","i","t","h","u","b",".","c","o","m">>,
    stripped |-> <<"a","p","i",".","g","i","t","h","u","b",".","c","o","m">>],
   [text |-> <<"a","p","i","x",".","i","o">>,
    hostname |-> <<"a","p","i","x",".","i","o">>,
    stripped |-> <<"a","p","i","x",".","i","o">>],
   [text |-> <<"w","w","w",".","a","p","i",".","g","i","t","h","u","b",".","c","o","m">>,
    hostname |-> <<"w","w","w",".","a","p","i",".","g","i","t","h","u","b",".","c","o","m">>,
    stripped |-> <<"w","w","w",".","a","p","i",".","g","i","t","h","u","b",".","c","o","m">>]}

Ports == {NoText, <<"8","4","4","3">>, <<"4","4","3">>, <<"8","0">>}

\* path, query and fragment
Tails ==
  {NoText,
   <<"/">>,
   <<"/","a","p","i","/","v","3">>,
   <<"?","q","=","1">>,
   <<"#","f","r","a","g">>,
   <<"/","a","p","i","/","v","3","?","q","=","1","#","f","r","a","g">>}

\* texts that are no URL: empty, without a scheme, without a host, with a
\* space in the host, with letters for a port
Unparseable ==
  {NoText,
   <<"n","o","t","-","a","-","v","a","l","i","d","-","u","r","l">>,
   <<"h","t","t","p","s",":","/","/">>,
   <<"h","t","t","p","s",":","/","/","b","a","d"," ","h","o","s","t","/">>,
   <<"h","t","t","p","s",":","/","/","g","h","e",".","i","o",":","p","o","r","t","/">>}

UrlText(s, h, p, t) ==
  s.text \o <<":","/","/">> \o h.text
    \o (IF p # NoText THEN <<":">> \o p ELSE NoText) \o t

ApiUrls ==
  {[kind |-> "url", wellFormed |-> TRUE, scheme |-> s.scheme, hostname |-> h.hostname,
    stripped |-> h.stripped, port |-> p, text |-> UrlText(s, h, p, t)] :
     s \in Schemes, h \in Hosts, p \in Ports, t \in Tails}
  \cup {[kind |-> "url", wellFormed |-> FALSE, scheme |-> NoText, hostname |-> NoText,
         stripped |-> NoText, port |-> NoText, text |-> u] : u \in Unparseable}

InitUrl ==
  /\ InitRun
  /\ SOURCE_GITHUB_TOKEN = TokenS /\ TARGET_GITHUB_TOKEN = TokenT
  /\ OVERWRITE_VISIBILITY = FALSE /\ FORCE_PUSH = FALSE
  /\ repos = << >> /\ world = RunWorld
  /\ hpc = "url" /\ arg \in ApiUrls
  /\ ret = NoText /\ ret2 = NoText /\ threw = FALSE /\ warnings = 0

\* deriveInstanceUrl(apiUrl)
DeriveCall ==
  /\ hpc = "url"
  /\ LET r == deriveInstanceUrl(arg.text)
     IN ret' = r.value /\ warnings' = warnings + r.warnings
  /\ hpc' = "derived"
  /\ UNCHANGED <<arg, ret2, threw>>
  /\ UNCHANGED runState

\* deriveInstanceUrl applied to the URL it returned
DeriveAgain ==
  /\ hpc = "derived"
  /\ LET r == deriveInstanceUrl(ret)
     IN ret2' = r.value /\ warnings' = warnings + r.warnings
  /\ hpc' = "rederived"
  /\ UNCHANGED <<arg, ret, threw>>
  /\ UNCHANGED runState

NextUrl ==
  \/ DeriveCall
  \/ DeriveAgain

SpecUrl == InitUrl /\ [][NextUrl]_vars

\* C15: deriveInstanceUrl is idempotent and total: it never throws, and
\* applied to its own result it returns that result, also for hostnames with
\* a repeated "api." prefix
C15_DeriveIdempotentTotal ==
  /\ ~threw
  /\ hpc = "rederived" => ret2 = ret

\* the instance URL the pieces of a well-formed API URL stand for
InstanceUrl(scheme, hostname, port) ==
  scheme \o <<":","/","/">> \o hostname
    \o (IF port # NoText THEN <<":">> \o port ELSE NoText)

\* C16: for every parseable API URL whose lower-cased hostname is exactly
\* api.github.com, deriveInstanceUrl returns exactly https://github.com,
\* whatever the scheme, the port, the path, the query and the letter case of
\* the hostname
C16_GithubCom ==
  (hpc \in {"derived", "rederived"} /\ arg.wellFormed
     /\ arg.hostname = ApiGithubCom)
    => ret = HttpsGithubCom

\* http, upper-case letters, a port, a path, a query and a fragment
C16_Witness ==
  /\ hpc = "derived"
  /\ arg.text = <<"h","t","t","p",":","/","/","A","P","I",".","G","i","t","H","u","b",".","c","o","m",":","8","4","4","3","/","a","p","i","/","v","3","?","q","=","1","#","f","r","a","g">>
  /\ ret = HttpsGithubCom

\* C17 as stated: for every parseable API URL whose hostname is not
\* api.github.com the result is scheme://hostname[:port], the hostname with
\* one leading "api." removed, the port kept whenever the URL has one, and
\* path, query and fragment dropped
C17_InstanceUrlKeepsPort ==
  (hpc \in {"derived", "rederived"} /\ arg.wellFormed
     /\ arg.hostname # ApiGithubCom)
    => ret = InstanceUrl(arg.scheme, arg.stripped, arg.port)

\* C17: for every parseable API URL whose hostname is not api.github.com the
\* result is scheme://hostname[:port], the hostname with exactly one leading
\* "api." removed, the port kept unless it is the default port of the scheme,
\* and path, query and fragment dropped
C17_InstanceUrl ==
  (hpc \in {"derived", "rederived"} /\ arg.wellFormed
     /\ arg.hostname # ApiGithubCom)
    => ret = InstanceUrl(arg.scheme, arg.stripped,
                         IF (arg.scheme = Https /\ arg.port = <<"4","4","3">>)
                              \/ (arg.scheme = Http /\ arg.port = <<"8","0">>)
                         THEN NoText ELSE arg.port)

\* a doubled "api." prefix loses one, the port stays, the rest is dropped
C17_Witness ==
  /\ hpc = "derived"
  /\ arg.text = <<"h","t","t","p","s",":","/","/","a","p","i",".","a","p","i",".","g","h","e",".","i","o",":","8","4","4","3","/","a","p","i","/","v","3","?","q","=","1","#","f","r","a","g">>
  /\ ret = <<"h","t","t","p","s",":","/","/","a","p","i",".","g","h","e",".","i","o",":","8","4","4","3">>

\* C18: for a text that cannot be parsed as a URL deriveInstanceUrl returns
\* the text unchanged and emits exactly one warning; for a parseable URL it
\* emits none
C18_WarningOnlyWhenUnparseable ==
  hpc = "derived" =>
    /\ arg.wellFormed <=> URL(arg.text).ok
    /\ ~arg.wellFormed => (ret = arg.text /\ warnings = 1)
    /\ arg.wellFormed => warnings = 0

C18_Witness ==
  /\ hpc = "derived"
  /\ arg.text = <<"n","o","t","-","a","-","v","a","l","i","d","-","u","r","l">>
  /\ ret = arg.text /\ warnings = 1

CreateCalls == {i \in DOMAIN calls : calls[i].op = "create"}

\* C19: when the fetch of the target answers not-found, ensureRepository
\* issues exactly one create call, with private = true for visibility private
\* or internal and private = false for public, issues no update call, and
\* (the creation succeeding) returns created = true, visibilityUpdated =
\* false, descriptionUpdated = false, which a success outcome carries on
C19_CreateWhenMissing ==
  (InRepo /\ Issued("targetGet", "notFound") /\ pc # "create") =>
    /\ Cardinality(CreateCalls) = 1
    /\ \A i \in CreateCalls :
         /\ calls[i].private =
              (IF repoConfig.visibility \in {"private", "internal"}
               THEN "true" ELSE "false")
         /\ calls[i].visibility = repoConfig.visibility
    /\ ~MetadataUpdate("ok") /\ ~MetadataUpdate("failed")
    /\ Issued("create", "ok") =>
         repoStatus = [created |-> TRUE, visibilityUpdated |-> FALSE,
                       descriptionUpdated |-> FALSE]
    /\ (pc = "returned" /\ result.kind = "value" /\ result.success) =>
         /\ result.created
         /\ ~result.visibilityUpdated /\ ~result.descriptionUpdated

\* an internal repository created with private = true and synchronised
C19_Witness ==
  /\ pc = "returned" /\ repoConfig.visibility = "internal"
  /\ \E i \in CreateCalls : calls[i].outcome = "ok" /\ calls[i].private = "true"
  /\ result.kind = "value" /\ result.success /\ result.created
  /\ ~result.visibilityUpdated /\ ~result.descriptionUpdated

\* C20: when overwrite-repo-visibility is off, for every current and every
\* configured visibility of an existing target no update call carries a
\* visibility field, the target keeps its visibility, and the status and the
\* outcome have visibilityUpdated = false
C20_VisibilityGated ==
  (InRepo /\ ~OVERWRITE_VISIBILITY /\ target0.exists) =>
    /\ \A i \in DOMAIN calls :
         calls[i].op = "update" => calls[i].visibility = Absent
    /\ target.visibility = target0.visibility
    /\ ~repoStatus.visibilityUpdated
    /\ (pc = "returned" /\ result.kind = "value") => ~result.visibilityUpdated

\* a public target, private configured, the setting off: the description is
\* updated, the visibility is not
C20_Witness ==
  /\ pc = "returned" /\ ~OVERWRITE_VISIBILITY
  /\ target0.exists /\ target0.visibility = "public"
  /\ repoConfig.visibility = "private"
  /\ MetadataUpdate("ok")
  /\ result.kind = "value" /\ result.success /\ result.descriptionUpdated
  /\ ~result.visibilityUpdated /\ target.visibility = "public"

MetadataUpdates ==
  {i \in DOMAIN calls : calls[i].op = "update" /\ calls[i].archived = Absent}

\* what the reconcile step of an existing target has to change, told from the
\* target as the sync found it
VisibilityWanted ==
  OVERWRITE_VISIBILITY /\ target0.visibility # repoConfig.visibility
DescriptionWanted ==
  (IF target0.description = Null THEN "" ELSE target0.description) # description

\* ensureRepository has fetched an existing target and is past its update call
Reconciled == InRepo /\ Issued("targetGet", "ok") /\ pc # "update"

\* C21: for an existing target ensureRepository issues at most one update
\* call; it issues it if and only if a visibility change (with
\* overwrite-repo-visibility) or a description change is staged, and the call
\* carries every staged field and no other
C21_OneCombinedUpdate ==
  Reconciled =>
    /\ Cardinality(MetadataUpdates) <= 1
    /\ (MetadataUpdates # {}) <=> (VisibilityWanted \/ DescriptionWanted)
    /\ \A i \in MetadataUpdates :
         /\ calls[i].visibility =
              (IF VisibilityWanted THEN repoConfig.visibility ELSE Absent)
         /\ calls[i].description =
              (IF DescriptionWanted THEN description ELSE Absent)
    /\ ~Attempted("create")

\* visibility and description both staged and sent in one call
C21_Witness ==
  /\ pc = "returned" /\ result.kind = "value" /\ result.success
  /\ target0.exists /\ target0.visibility = "public" /\ target0.description = "Old"
  /\ repoConfig.visibility = "private" /\ description = "old"
  /\ Cardinality(MetadataUpdates) = 1
  /\ \E i \in MetadataUpdates :
       /\ calls[i].outcome = "ok"
       /\ calls[i].visibility = "private" /\ calls[i].description = "old"
  /\ result.visibilityUpdated /\ result.descriptionUpdated

EmptyDescription(d) == d \in {Null, ""}

\* C22: the description check stages a change if and only if the current
\* description and the desired one differ as strings, letter case included,
\* null and the empty string counting as the same
C22_DescriptionCheck ==
  Reconciled =>
    LET same == \/ EmptyDescription(target0.description) /\ EmptyDescription(description)
                \/ target0.description = description
    IN /\ repoStatus.descriptionUpdated <=> ~same
       /\ \A i \in MetadataUpdates : (calls[i].description # Absent) <=> ~same

\* a target without description and a source with the empty one: the update
\* call that changes the visibility carries no description
C22_Witness ==
  /\ Reconciled /\ target0.description = Null /\ description = ""
  /\ Issued("sourceGet", "ok")
  /\ \E i \in MetadataUpdates :
       calls[i].visibility # Absent /\ calls[i].description = Absent
  /\ ~repoStatus.descriptionUpdated

\* descriptions that differ in letter case only are different
C22_WitnessCase ==
  /\ Reconciled /\ target0.description = "Old" /\ description = "old"
  /\ repoStatus.descriptionUpdated

\* the place of a call in the workflow of one repository, the removal of the
\* scratch directory in the finally block coming last
StepOf(call) ==
  CASE call.op = "sourceGet" -> 1
    [] call.op = "targetGet" -> 2
    [] call.op = "create" -> 3
    [] call.op = "update" /\ call.archived = Absent -> 3
    [] call.op = "unarchiveGet" -> 4
    [] call.op = "update" /\ call.archived = "false" -> 5
    [] call.op = "disableActions" -> 6
    [] call.op = "clone" -> 7
    [] call.op = "pushBranches" -> 8
    [] call.op = "pushTags" -> 9
    [] call.op = "update" /\ call.archived = "true" -> 10
    [] call.op = "rm" -> 11

StepsTaken == {StepOf(calls[i]) : i \in DOMAIN calls}

\* C23: the steps of one repository occur in the order source-description
\* fetch, target reconcile, unarchive check (if archive-after-sync), Actions
\* disable (if requested), mirror clone, branch push, tag push, archive (if
\* archive-after-sync); a step starts when the one before has resolved, and
\* no step is taken twice or gone back to
C23_StepOrder ==
  InRepo =>
    /\ \A i, j \in DOMAIN calls : i < j => StepOf(calls[i]) < StepOf(calls[j])
    /\ calls # << >> => calls[1].op = "sourceGet"
    /\ Len(calls) >= 2 => calls[2].op = "targetGet"
    /\ (4 \in StepsTaken \/ 5 \in StepsTaken \/ 10 \in StepsTaken)
         => repoConfig.archiveAfterSync
    /\ 6 \in StepsTaken => repoConfig.disableActions
    /\ 7 \in StepsTaken =>
         /\ 4 \in StepsTaken <=> repoConfig.archiveAfterSync
         /\ 6 \in StepsTaken <=> repoConfig.disableActions
    /\ (pc = "returned" /\ result.kind = "value" /\ result.success) =>
         /\ {1, 2, 7, 8, 9} \subseteq StepsTaken
         /\ 10 \in StepsTaken <=> repoConfig.archiveAfterSync

\* every step of the workflow taken, in order
C23_Witness ==
  /\ pc = "returned" /\ result.kind = "value" /\ result.success
  /\ [i \in DOMAIN calls |-> StepOf(calls[i])] = <<1, 2, 3, 4, 5, 6, 7, 8, 9, 10, 11>>

\* two calls are attempts of the same thing: the same operation and, for an
\* update, the same kind of update
SameCall(a, b) == a.op = b.op /\ a.archived = b.archived

\* C24: within the processing of one repository every remote call (source
\* fetch, target fetch, create, metadata update, unarchive, Actions disable,
\* archive) and every external command (clone, branch push, tag push) is
\* attempted at most once, whether it succeeds or fails
C24_SingleAttempt ==
  InRepo =>
    \A i, j \in DOMAIN calls : SameCall(calls[i], calls[j]) => i = j

\* five calls failed, each of them attempted once
C24_Witness ==
  /\ pc = "returned"
  /\ Issued("sourceGet", "failed") /\ MetadataUpdate("failed")
  /\ IssuedArchive("failed", "false") /\ Issued("disableActions", "failed")
  /\ Issued("pushBranches", "failed")
  /\ [i \in DOMAIN calls |-> StepOf(calls[i])] = <<1, 2, 3, 4, 5, 6, 7, 8, 11>>

\* --------------------------------------- the target changed by someone else
\* another actor archives or unarchives the target after the reconcile step
\* has read it and before the unarchive check reads it
ArchivedChangedElsewhere ==
  /\ pc \in {"update", "unarchiveGet"}
  /\ target.exists
  /\ target' = [target EXCEPT !.archived = ~@]
  /\ UNCHANGED <<helperCall, config, counters, pc, idx, target0, description,
                 repoStatus, updates, tempDirs, cwd, originalCwd, result, calls,
                 exitCode>>

\* as RunWorld, the source description also differing from the target's
EnvWorld == [RunWorld EXCEPT !.sourceDescs = {"Old", "old"}]

\* one repository (or none) with every configuration, the target absent,
\* present or present and archived
InitEnv ==
  /\ SOURCE_GITHUB_TOKEN = TokenS /\ TARGET_GITHUB_TOKEN = TokenT
  /\ OVERWRITE_VISIBILITY = FALSE /\ FORCE_PUSH = FALSE
  /\ repos \in SeqsUpTo(RepoConfigs, 1)
  /\ world = EnvWorld
  /\ InitRun /\ NoHelperCall

NextEnv ==
  \/ StartRepo
  \/ FetchSourceDescription
  \/ EnsureRepositoryGet
  \/ EnsureRepositoryUpdate
  \/ EnsureRepositoryCreate
  \/ ArchivedChangedElsewhere
  \/ UnarchiveGet
  \/ UnarchiveUpdate
  \/ DisableActions
  \/ Clone
  \/ PushBranches
  \/ PushTags
  \/ ArchiveRepository
  \/ Fold
  \/ NoRepositories
  \/ Summary

SpecEnv == InitEnv /\ [][NextEnv]_vars

\* what the unarchive check read, "none" while it has not read
FreshRead ==
  IF \E i \in DOMAIN calls : calls[i].op = "unarchiveGet" /\ calls[i].outcome = "ok"
  THEN LET i == CHOOSE i \in DOMAIN calls :
                  calls[i].op = "unarchiveGet" /\ calls[i].outcome = "ok"
       IN calls[i].archived
  ELSE "none"

\* C25: the unarchive check decides from its own read of the target, not from
\* the one of the reconcile step: it sends the unarchive call exactly when the
\* target was archived at its own read, also when the flag has changed since
\* the reconcile step read the target; and the check is made only, and then
\* always, when the configuration asks for archive-after-sync
C25_FreshRead ==
  InRepo =>
    /\ (pc = "unarchive" \/ AttemptedArchive("false")) <=> FreshRead = "true"
    /\ Attempted("unarchiveGet") => repoConfig.archiveAfterSync
    /\ (repoConfig.archiveAfterSync
          /\ (Attempted("disableActions") \/ Attempted("clone")
                \/ pc \in {"disableActions", "clone"}))
         => Attempted("unarchiveGet")

\* the reconcile step found the target unarchived, the check found it
\* archived and unarchived it
C25_Witness ==
  /\ InRepo /\ target0.exists /\ ~target0.archived
  /\ Issued("targetGet", "ok")
  /\ FreshRead = "true" /\ IssuedArchive("ok", "false")

\* ------------------------------------------------- list entries with absent keys
ConfigKeys == {"visibility", "disableActions", "archiveAfterSync"}

\* every list entry: each key present with one of its values, or absent
RawConfigs ==
  {[k \in keys |-> c[k]] : c \in RepoConfigs, keys \in SUBSET ConfigKeys}

\* one repository (or none) with every list entry
InitConfig ==
  /\ SOURCE_GITHUB_TOKEN = TokenS /\ TARGET_GITHUB_TOKEN = TokenT
  /\ OVERWRITE_VISIBILITY = FALSE /\ FORCE_PUSH = FALSE
  /\ repos \in SeqsUpTo(RawConfigs, 1)
  /\ world = EnvWorld
  /\ InitRun /\ NoHelperCall

SpecConfig == InitConfig /\ [][Next]_vars

\* the list entry does not set disable-github-actions to false
ActionsDisableRequested ==
  "disableActions" \notin DOMAIN repos[idx] \/ repos[idx].disableActions # FALSE

\* mirrorRepository is at the clone or past it
AtTransfer ==
  \/ pc \in {"clone", "pushBranches", "pushTags", "archive"}
  \/ pc = "returned" /\ result.kind = "value"

\* C26: the Actions-disable call is issued for a repository if and only if its
\* list entry does not set disable-github-actions to false (an absent key
\* counts as true) and the reconcile step did not raise; it is issued before
\* the clone starts, and when it fails the sync goes on to the transfer
C26_ActionsDisable ==
  InRepo =>
    /\ Attempted("disableActions")
         => (ActionsDisableRequested /\ ~FatalReconcileFailure)
    /\ AtTransfer => (Attempted("disableActions") <=> ActionsDisableRequested)
    /\ (pc = "returned" /\ result.kind = "thrown") => ~Attempted("disableActions")
    /\ \A i \in DOMAIN calls :
         calls[i].op = "disableActions" =>
           \A j \in 1..(i - 1) : calls[j].op # "clone"
    /\ Issued("disableActions", "failed") => AtTransfer

\* an entry without the key: the call is made, fails, and the sync succeeds
C26_Witness ==
  /\ pc = "returned" /\ "disableActions" \notin DOMAIN repos[idx]
  /\ Issued("disableActions", "failed")
  /\ Issued("clone", "ok") /\ result.kind = "value" /\ result.success

\* ------------------------------------------------------------ module load
\* the value each source of a tunable holds when it is set; the values differ
\* so that the resolved value tells which source it came from
SourceTokenValues ==
  [input |-> <<"g","h","p","_","i">>,
   inputEnv |-> <<"g","h","p","_","e">>,
   flag |-> <<"g","h","p","_","f">>,
   env |-> <<"g","h","p","_","v">>]
TargetTokenValues ==
  [input |-> <<"g","h","t","_","i">>,
   inputEnv |-> <<"g","h","t","_","e">>,
   flag |-> <<"g","h","t","_","f">>,
   env |-> <<"g","h","t","_","v">>]
SourceApiUrlValues ==
  [input |-> <<"h","t","t","p","s",":","/","/","i",".","g","h","e",".","i","o","/","a","p","i","/","v","3">>,
   inputEnv |-> <<"h","t","t","p","s",":","/","/","e",".","g","h","e",".","i","o","/","a","p","i","/","v","3">>,
   flag |-> <<"h","t","t","p","s",":","/","/","f",".","g","h","e",".","i","o","/","a","p","i","/","v","3">>,
   env |-> <<"h","t","t","p","s",":","/","/","v",".","g","h","e",".","i","o","/","a","p","i","/","v","3">>]
TargetApiUrlValues ==
  [input |-> <<"h","t","t","p","s",":","/","/","i",".","t","g","t",".","i","o","/","a","p","i","/","v","3">>,
   inputEnv |-> <<"h","t","t","p","s",":","/","/","e",".","t","g","t",".","i","o","/","a","p","i","/","v","3">>,
   flag |-> <<"h","t","t","p","s",":","/","/","f",".","t","g","t",".","i","o","/","a","p","i","/","v","3">>,
   env |-> <<"h","t","t","p","s",":","/","/","v",".","t","g","t",".","i","o","/","a","p","i","/","v","3">>]

\* every way of setting some of the sources of a tunable
Choices(values) ==
  {[input |-> a, inputEnv |-> b, flag |-> c, env |-> d] :
     a \in {Unset, values.input}, b \in {Unset, values.inputEnv},
     c \in {Unset, values.flag}, d \in {Unset, values.env}}

FromEnv(values) == [UnsetTunable EXCEPT !.env = values.env]

\* the settings the load is checked with: every choice for the two tokens
\* with no API URL given, and every choice for the two API URLs with both
\* tokens in their plain environment variables
AllSettings ==
  {[sourceToken |-> st, targetToken |-> tt,
    sourceApiUrl |-> UnsetTunable, targetApiUrl |-> UnsetTunable] :
     st \in Choices(SourceTokenValues), tt \in Choices(TargetTokenValues)}
  \cup
  {[sourceToken |-> FromEnv(SourceTokenValues),
    targetToken |-> FromEnv(TargetTokenValues),
    sourceApiUrl |-> su, targetApiUrl |-> tu] :
     su \in Choices(SourceApiUrlValues), tu \in Choices(TargetApiUrlValues)}

\* the process before the module-level code of index.js has run
InitStartup ==
  /\ pc = "load" /\ settings \in AllSettings
  /\ SOURCE_GITHUB_TOKEN = Unset /\ TARGET_GITHUB_TOKEN = Unset
  /\ SOURCE_GITHUB_API_URL = Unset /\ TARGET_GITHUB_API_URL = Unset
  /\ OVERWRITE_VISIBILITY = FALSE /\ FORCE_PUSH = FALSE
  /\ repos \in SeqsUpTo(RunConfigs, 1)
  /\ world = RunWorld
  /\ idx = 1 /\ target = NoTarget /\ target0 = NoTarget
  /\ description = "" /\ repoStatus = NoStatus /\ updates = NoUpdates
  /\ tempDirs = {} /\ cwd = "original" /\ originalCwd = "original"
  /\ result = NoResult /\ calls = << >>
  /\ successful = 0 /\ failed = 0 /\ created = 0 /\ updated = 0
  /\ visibilityUpdated = 0 /\ descriptionUpdated = 0 /\ archived = 0
  /\ failedRepos = << >> /\ processed = << >> /\ exitCode = -1
  /\ NoHelperCall

\* as LoadModule, the two token checks left out
LoadModuleNoValidation ==
  /\ pc = "load"
  /\ SOURCE_GITHUB_TOKEN' = ResolveToken(settings.sourceToken)
  /\ TARGET_GITHUB_TOKEN' = ResolveToken(settings.targetToken)
  /\ SOURCE_GITHUB_API_URL' = ResolveApiUrl(settings.sourceApiUrl, DefaultApiUrl)
  /\ TARGET_GITHUB_API_URL' =
       ResolveApiUrl(settings.targetApiUrl, SOURCE_GITHUB_API_URL')
  /\ pc' = "main" /\ UNCHANGED exitCode
  /\ UNCHANGED <<helperCall, counters, OVERWRITE_VISIBILITY, FORCE_PUSH, repos,
                 world, settings, idx, target, target0, description, repoStatus,
                 updates, tempDirs, cwd, originalCwd, result, calls>>

\* the module-level code: the tunables are resolved, then process.exit(1)
\* when a token is missing; otherwise main() is called
LoadModule ==
  /\ pc = "load"
  /\ SOURCE_GITHUB_TOKEN' = ResolveToken(settings.sourceToken)
  /\ TARGET_GITHUB_TOKEN' = ResolveToken(settings.targetToken)
  /\ SOURCE_GITHUB_API_URL' = ResolveApiUrl(settings.sourceApiUrl, DefaultApiUrl)
  /\ TARGET_GITHUB_API_URL' =
       ResolveApiUrl(settings.targetApiUrl, SOURCE_GITHUB_API_URL')
  /\ IF SOURCE_GITHUB_TOKEN' = Unset \/ TARGET_GITHUB_TOKEN' = Unset
     THEN pc' = "exit" /\ exitCode' = 1
     ELSE pc' = "main" /\ UNCHANGED exitCode
  /\ UNCHANGED <<helperCall, counters, OVERWRITE_VISIBILITY, FORCE_PUSH, repos,
                 world, settings, idx, target, target0, description, repoStatus,
                 updates, tempDirs, cwd, originalCwd, result, calls>>

NextStartup ==
  \/ LoadModule
  \/ StartRepo
  \/ FetchSourceDescription
  \/ EnsureRepositoryGet
  \/ EnsureRepositoryUpdate
  \/ EnsureRepositoryCreate
  \/ UnarchiveGet
  \/ UnarchiveUpdate
  \/ DisableActions
  \/ Clone
  \/ PushBranches
  \/ PushTags
  \/ ArchiveRepository
  \/ Fold
  \/ NoRepositories
  \/ Summary

SpecStartup == InitStartup /\ [][NextStartup]_vars

\* no source of the tunable holds a value
Absent4(tunable) ==
  tunable.input = Unset /\ tunable.inputEnv = Unset /\ tunable.flag = Unset
    /\ tunable.env = Unset

Loaded == pc # "load"

C28_TargetTokenFallsBack ==
  (Loaded /\ Absent4(settings.targetToken) /\ ~Absent4(settings.sourceToken))
    => TARGET_GITHUB_TOKEN = SOURCE_GITHUB_TOKEN

\* the sources of a tunable from the highest priority to the lowest
SourceOrder == <<"input", "inputEnv", "flag", "env">>

\* the value of the first source of the tunable that is set, else the default
FirstSet(tunable, default) ==
  LET set == {i \in DOMAIN SourceOrder : tunable[SourceOrder[i]] # Unset}
  IN IF set = {} THEN default ELSE tunable[SourceOrder[Min(set)]]

\* C29: the effective value of a tunable is the first one set in the order
\* Actions input, INPUT_* variable, command-line flag, plain environment
\* variable, hard-coded default; so when only the plain variable
\* SOURCE_GITHUB_API_URL or TARGET_GITHUB_API_URL is set, its value is the
\* effective API URL
C29_ResolutionOrder ==
  Loaded =>
    /\ SOURCE_GITHUB_TOKEN = FirstSet(settings.sourceToken, Unset)
    /\ TARGET_GITHUB_TOKEN = FirstSet(settings.targetToken, Unset)
    /\ SOURCE_GITHUB_API_URL = FirstSet(settings.sourceApiUrl, DefaultApiUrl)
    /\ ~Absent4(settings.targetApiUrl)
         => TARGET_GITHUB_API_URL = FirstSet(settings.targetApiUrl, Unset)

\* C30: when no input, flag or environment variable gives a target API URL,
\* the target API URL is the effective source API URL, also when that is not
\* the default one
C30_TargetApiUrlDefaultsToSource ==
  (Loaded /\ Absent4(settings.targetApiUrl))
    => TARGET_GITHUB_API_URL = SOURCE_GITHUB_API_URL


(***************************************************************************)
(* Termination: main awaits mirrorRepository for one list entry at a time, *)
(* and every step of mirrorRepository is a single awaited call.  Weak      *)
(* fairness of Next says that each awaited call settles.                   *)
(***************************************************************************)
SpecLive == Init /\ [][Next]_vars /\ WF_vars(Next)

\* C31: when every awaited call settles, a repository whose processing has
\* started reaches its outcome, and the run reaches the summary and exits
\* with every list entry processed, whichever steps fail.
C31_Termination ==
  /\ <>(pc = "exit" /\ Len(processed) = Len(repos))
  /\ (InRepo ~> (pc = "returned"))

C31_Witness ==
  /\ pc = "exit"
  /\ Len(repos) >= 2
  /\ Len(processed) = Len(repos)
  /\ failed >= 1
  /\ successful >= 1


\* the calls of the log with the given operation
CallsOf(op) == {i \in DOMAIN calls : calls[i].op = op}

\* C32: when the branch push succeeds and the tag push fails, the outcome is
\* success = false, no archive call is made, each push was issued exactly
\* once, and nothing but the removal of the scratch directory follows the
\* failed tag push.
C32_FailedTagsNoCompensation ==
  (pc = "returned" /\ Issued("pushBranches", "ok") /\ Issued("pushTags", "failed"))
    => /\ result.success = FALSE
       /\ ~AttemptedArchive("true")
       /\ Cardinality(CallsOf("pushBranches")) = 1
       /\ Cardinality(CallsOf("pushTags")) = 1
       /\ \A i \in CallsOf("pushTags") :
            \A j \in (i + 1)..Len(calls) : calls[j].op = "rm"

C32_Witness ==
  /\ pc = "returned"
  /\ Issued("pushBranches", "ok")
  /\ Issued("pushTags", "failed")
  /\ repoConfig.archiveAfterSync
  /\ result.success = FALSE


\* C33: a create call is issued only directly after a get of the target that
\* returned the not-found signal; after a get that failed in any other way
\* no create call is issued.
C33_CreateOnlyAfterNotFound ==
  /\ \A i \in CallsOf("create") :
       /\ i > 1
       /\ calls[i - 1].op = "targetGet"
       /\ calls[i - 1].outcome = "notFound"
  /\ Issued("targetGet", "failed") => ~Attempted("create")

C33_Witness ==
  /\ pc = "returned"
  /\ Issued("targetGet", "failed")
  /\ ~target0.exists
  /\ ~Attempted("create")
  /\ result.success = FALSE


\* C34: the failure list has one entry per failed repository (its length is
\* the failed count, and its entries are the repositories that did not
\* succeed), in the order of the repository list.
C34_FailureListOrdered ==
  /\ Len(failedRepos) = failed
  /\ {failedRepos[k].repo : k \in DOMAIN failedRepos}
       = {processed[k].repo : k \in {j \in DOMAIN processed : processed[j].how # "success"}}
  /\ \A k \in 1..(Len(failedRepos) - 1) : failedRepos[k].repo < failedRepos[k + 1].repo

C34_Witness ==
  /\ pc = "exit"
  /\ Len(failedRepos) = 2
  /\ failedRepos[1].repo < failedRepos[2].repo
  /\ processed[failedRepos[1].repo].how = "caught"
  /\ processed[failedRepos[2].repo].how = "failed"


\* C35: the per-outcome counters count successful outcomes only: created +
\* updated = successful at every point of the run and no counter exceeds
\* successful; folding a repository whose target was created and whose
\* transfer then failed adds one to failed and leaves created, visibility
\* updated, description updated and archived as they were.
C35_CountersCountSuccessOnly ==
  /\ [](/\ created + updated = successful
        /\ successful = HowCount("success")
        /\ visibilityUpdated <= successful
        /\ descriptionUpdated <= successful
        /\ archived <= successful)
  /\ [][(pc = "returned" /\ pc' = "main" /\ Issued("create", "ok") /\ TransferFailed)
          => /\ failed' = failed + 1
             /\ UNCHANGED <<successful, created, updated, visibilityUpdated,
                            descriptionUpdated, archived>>]_vars

C35_Witness ==
  /\ pc = "main"
  /\ Len(processed) = 2
  /\ processed[1].how = "success"
  /\ created = 1
  /\ processed[2].how = "failed"
  /\ Issued("create", "ok")
  /\ TransferFailed
  /\ failed = 1


\* C36: the metadata update of ensureRepository is issued before the
\* unarchive check: no read of the archived flag and no unarchive call
\* precedes it in the log, and a target that was archived when its sync
\* started is still archived when the update call is about to be made.
C36_UpdateBeforeUnarchiveCheck ==
  /\ \A i \in MetadataUpdates :
       \A j \in 1..(i - 1) :
         /\ calls[j].op # "unarchiveGet"
         /\ ~(calls[j].op = "update" /\ calls[j].archived = "false")
  /\ (pc = "update" /\ target0.archived) =>
       (target.archived /\ ~Attempted("unarchiveGet"))

\* an archived target whose metadata update was made first and which was
\* unarchived afterwards
C36_Witness ==
  /\ pc = "returned"
  /\ target0.archived
  /\ \E i \in MetadataUpdates :
       /\ calls[i].outcome = "ok"
       /\ calls[i + 1].op = "unarchiveGet"
       /\ calls[i + 1].archived = "true"
  /\ IssuedArchive("ok", "false")


\* C37: when the fetch of the source description fails, ensureRepository
\* runs with the empty string as desired description: once it has fetched an
\* existing target whose description is non-empty, exactly one update call
\* is in the log, it carries description "", the status has
\* descriptionUpdated = true, and a success outcome carries that flag on.
C37_FailedSourceFetchEmptiesDescription ==
  (Reconciled /\ Issued("sourceGet", "failed")
     /\ ~EmptyDescription(target0.description)) =>
    /\ description = ""
    /\ Cardinality(MetadataUpdates) = 1
    /\ \A i \in MetadataUpdates : calls[i].description = ""
    /\ repoStatus.descriptionUpdated
    /\ (pc = "returned" /\ result.kind = "value" /\ result.success) =>
         result.descriptionUpdated

C37_Witness ==
  /\ pc = "returned"
  /\ Issued("sourceGet", "failed")
  /\ target0.exists /\ target0.description = "Old"
  /\ \E i \in MetadataUpdates : calls[i].description = "" /\ calls[i].outcome = "ok"
  /\ target.description = ""
  /\ result.kind = "value" /\ result.success /\ result.descriptionUpdated


\* C38: the working directory is restored after every repository: whenever
\* main is between repositories, a repository's processing has just started
\* or been handed back, or the run has ended, the working directory is the
\* one the run started with, whichever of clone, branch push or tag push
\* failed.
C38_WorkingDirectoryRestored ==
  /\ pc \in {"main", "sourceGet", "returned", "exit"} => cwd = "original"
  /\ cwd # "original" => (cwd = "repoDir" /\ Issued("clone", "ok"))

\* the second repository is about to start after the first one failed its
\* branch push inside the clone directory
C38_Witness ==
  /\ pc = "main"
  /\ idx = 2
  /\ Len(repos) >= 2
  /\ Issued("clone", "ok")
  /\ Issued("pushBranches", "failed")
  /\ cwd = "original"


\* C39: with archive-after-sync on and a successful transfer exactly one
\* archive call is issued, whether or not the target was archived when the
\* sync found it, and the archived flag of the outcome is true exactly when
\* that call succeeded.
C39_ArchiveCallAlwaysIssued ==
  (pc = "returned" /\ repoConfig.archiveAfterSync /\ TransferSucceeded) =>
    /\ Cardinality({i \in CallsOf("update") : calls[i].archived = "true"}) = 1
    /\ result.kind = "value" /\ result.success
    /\ result.archived <=> IssuedArchive("ok", "true")

\* a target that was not archived before the sync, archived after it
C39_Witness ==
  /\ pc = "returned"
  /\ repoConfig.archiveAfterSync
  /\ target0.exists /\ ~target0.archived
  /\ TransferSucceeded
  /\ IssuedArchive("ok", "true")
  /\ result.archived
  /\ target.archived


(***************************************************************************)
(* The repository list file as yaml.load returns it: a mapping whose       *)
(* `repos` key holds a list, holds null (`repos:` without a value) or is   *)
(* absent.  main takes `config.repos || []`.                               *)
(***************************************************************************)
Documents ==
  {[kind |-> "yaml", repos |-> [isNull |-> FALSE, items |-> l]] :
     l \in SeqsUpTo(RunConfigs, 1)}
  \cup {[kind |-> "yaml", repos |-> [isNull |-> TRUE, items |-> << >>]]}
  \cup {[kind |-> "yaml"]}

InitList ==
  /\ pc = "readList" /\ arg \in Documents
  /\ SOURCE_GITHUB_TOKEN = TokenS /\ TARGET_GITHUB_TOKEN = TokenT
  /\ SOURCE_GITHUB_API_URL = DefaultApiUrl /\ TARGET_GITHUB_API_URL = DefaultApiUrl
  /\ OVERWRITE_VISIBILITY = FALSE /\ FORCE_PUSH = FALSE
  /\ settings = NoSettings
  /\ repos = << >>
  /\ world = EnvWorld
  /\ idx = 1 /\ target = NoTarget /\ target0 = NoTarget
  /\ description = "" /\ repoStatus = NoStatus /\ updates = NoUpdates
  /\ tempDirs = {} /\ cwd = "original" /\ originalCwd = "original"
  /\ result = NoResult /\ calls = << >>
  /\ successful = 0 /\ failed = 0 /\ created = 0 /\ updated = 0
  /\ visibilityUpdated = 0 /\ descriptionUpdated = 0 /\ archived = 0
  /\ failedRepos = << >> /\ processed = << >> /\ exitCode = -1
  /\ hpc = "idle" /\ ret = NoText /\ ret2 = NoText
  /\ threw = FALSE /\ warnings = 0

\* a main that reads config.repos without `|| []`: the length of undefined
\* or null cannot be read, main rejects and the process exits with status 1
ReadRepoListNoDefault ==
  /\ pc = "readList"
  /\ IF "repos" \in DOMAIN arg /\ ~arg.repos.isNull
     THEN repos' = arg.repos.items /\ pc' = "main" /\ UNCHANGED exitCode
     ELSE repos' = << >> /\ pc' = "exit" /\ exitCode' = 1
  /\ UNCHANGED <<helperCall, counters, SOURCE_GITHUB_TOKEN, TARGET_GITHUB_TOKEN,
                 OVERWRITE_VISIBILITY, FORCE_PUSH, world, settings,
                 SOURCE_GITHUB_API_URL, TARGET_GITHUB_API_URL, idx, target, target0,
                 description, repoStatus, updates, tempDirs, cwd, originalCwd,
                 result, calls>>

\* main: const repos = config.repos || []
ReadRepoList ==
  /\ pc = "readList"
  /\ repos' = IF "repos" \in DOMAIN arg /\ ~arg.repos.isNull
              THEN arg.repos.items ELSE << >>
  /\ pc' = "main"
  /\ UNCHANGED <<helperCall, counters, SOURCE_GITHUB_TOKEN, TARGET_GITHUB_TOKEN,
                 OVERWRITE_VISIBILITY, FORCE_PUSH, world, settings,
                 SOURCE_GITHUB_API_URL, TARGET_GITHUB_API_URL, idx, target, target0,
                 description, repoStatus, updates, tempDirs, cwd, originalCwd,
                 result, calls, exitCode>>

NextList ==
  \/ ReadRepoList
  \/ StartRepo
  \/ FetchSourceDescription
  \/ EnsureRepositoryGet
  \/ EnsureRepositoryUpdate
  \/ EnsureRepositoryCreate
  \/ UnarchiveGet
  \/ UnarchiveUpdate
  \/ DisableActions
  \/ Clone
  \/ PushBranches
  \/ PushTags
  \/ ArchiveRepository
  \/ Fold
  \/ NoRepositories
  \/ Summary

SpecList == InitList /\ [][NextList]_vars

\* the list file gives main no repository: the key is absent, null or an
\* empty list
NothingListed ==
  \/ "repos" \notin DOMAIN arg
  \/ arg.repos.isNull
  \/ arg.repos.items = << >>

\* C40: when the repository list is empty or the repos key is absent, the
\* run makes no remote call, creates no scratch directory and runs no
\* external command, and it ends with status zero.
C40_EmptyListDoesNothing ==
  NothingListed =>
    /\ pc \in {"readList", "main", "exit"}
    /\ pc # "readList" => Len(repos) = 0
    /\ calls = << >>
    /\ tempDirs = {}
    /\ cwd = "original"
    /\ failed = 0 /\ successful = 0
    /\ pc = "exit" => exitCode = 0

\* the run of a list file without the repos key has ended
C40_Witness ==
  /\ pc = "exit"
  /\ "repos" \notin DOMAIN arg
  /\ exitCode = 0
  /\ calls = << >>
  /\ tempDirs = {}

====
